---- MODULE Spec2Model ----
(***************************************************************************)
(* Strategy & Recovery Engine of the Crypto.Games multi-bot programs.      *)
(*                                                                         *)
(* Specification Spec models the engine of                                 *)
(*   src/crypto_games_bot_stable_100-9999_norm_versiya_Version36.py        *)
(* (class CryptoGamesBot with the BotTab/BotManagerApp entry points that   *)
(* start, pause and stop it).  Every bot runs CryptoGamesBot.start on a    *)
(* thread of its own; the threads share the manager's active_bots and      *)
(* every bot's last_successful_bank, which a winning bot overwrites in all *)
(* bots without holding a lock.  The loops of start() are therefore split  *)
(* at every read or write of another bot's fields.                         *)
(*                                                                         *)
(* Money is counted in whole quanta of the wager grid (the 8th decimal of  *)
(* quantize_bet); the configured amounts are a few quanta so that the      *)
(* reachable banks stay small.  The Bet Executor is the live API: a wager  *)
(* is settled as a win (Profit = bet * (payout - 1)), a loss               *)
(* (Profit = -bet) or an error reply.                                      *)
(***************************************************************************)
EXTENDS Integers, Sequences, FiniteSets, TLC

Bots == {1, 2}

\* Python's None for the optional Decimal fields (all amounts are >= 0).
None == -1

\* ---------------------------------------------------------------- bounds
\* Largest bank the executor pays out to (a win above it is not explored).
MaxBank == 13
\* Largest number of completed loop iterations (the sum of the bots'
\* spin_count) the loops are followed to: of a single bot, of a fleet.
MaxSpins == 4
MaxFleetSpins == 3
\* Cap on recovery_losses_so_far, which the code never resets on a plain win.
MaxRecoveryLosses == 4

\* ------------------------------------------------- configuration (quanta)
\* BetConfig.base_bet, BetConfig.min_bet_enforced, BetConfig.max_bet_limit.
BaseBet == 2
MinBetEnforced == 1
MaxBetLimit == 3
\* MinBet reported by the service settings (fetch_settings_if_needed).
MinBetSetting == 1
\* CryptoGamesBot.press_bet.
PressBet == 1
\* Bank of a fresh account.
InitialBalance == 5
\* LinearPayoutStrategy(start_payout, max_payout) as BotTab.start_bot builds it.
StartPayout == 5
MaxPayout == 6
\* recovery_auto_threshold_usdt, recovery_trigger_threshold and the percent
\* settings BotTab._apply_recovery_to_bot reads from the UI.
RecoveryAutoThreshold == 2
RecoveryTriggerThreshold == 95
RecoveryPctActivation == 50
RecoveryPctTotalLosses == 50
RecoveryTriggerPctBank == 5
\* The cap of _compute_recovery_bet: 5% of the current bank.
RecoveryCapPct == 5
\* Payout of a RECOVERY-TRIGGER round, of a press series, press band, rolls.
TriggerPayout == 5
PressPayout == 10
HighrollPressPayout == 100
PressBandLow == 5
PressBandHigh == 8
PressRollThreshold == 90
HighrollThreshold == 99
PressSpins == 2

\* Outcome values ("Roll") the executor reports: one below every threshold and
\* one that reaches the press threshold and the recovery trigger threshold.
Rolls == {50, 95}

RecoveryModes == {"RECOVERY", "RECOVERY-TRIGGER"}

VARIABLES
    bots,          \* bots[b]: the fields of CryptoGamesBot b and the locals of its start()
    active_bots,   \* BotManagerApp.active_bots, in registration order
    hist,          \* hist[b]: history of bot b that the properties read (no code reads it)
    calc,          \* a call of one of the sizing functions: its arguments and result
    cover,         \* the bot of the cover variant (cover_Version11_Version13), its
                   \* start() locals and the timers its manager has scheduled
    mgr            \* the manager of the shared-recovery variant (100-9999_cover%$):
                   \* its bots with their start() locals, and its resume timers

vars == <<bots, active_bots, hist, calc, cover, mgr>>

\* No call of a sizing function is being looked at.
NoCalc == [fn |-> "", args |-> [none |-> 0], out |-> None]

\* ---------------------------------- cover variant: bounds and configuration
\* Largest bank the executor pays out to, and the rounds start() is followed to.
MaxCoverBank == 10
MaxCoverRounds == 6
\* The form of BotTab.start_bot, in quanta and percent.
CoverInitialBalance == 8
CoverMinBet == 1
CoverMaxBetLimit == 4
CoverStartPayout == 2
CoverMaxPayout == 3
PeriodicPayout == 2
PeriodicRecoveryMaxSpins == 3
RecoveryStopLoss == 3
RecoveryCoverPercent == 100
BaseCoverPercentAfterSl == 30
BaseToRecoveryAfterSpins == 1
GlobalStopLoss == 2
Recover66Percent == 66
Recover66WinsTarget == 3

\* CryptoGamesBot.__init__ of the cover variant with the form applied; gsl is
\* the global stop-loss of the form (0 switches it off).
NewCover(gsl, sow) ==
    [ pc |-> "idle",
      is_running |-> FALSE, paused |-> FALSE, stop_on_win |-> sow,
      global_stop_loss_usdt |-> gsl,
      balance |-> CoverInitialBalance,
      current_payout |-> CoverStartPayout,     \* strategy.current_payout
      prev_payout |-> None,
      loss_total |-> 0, cycle_loss |-> 0, last_spin_was_loss |-> FALSE,
      balance_at_cycle_start |-> None,
      base_post_sl_lock |-> FALSE, consecutive_losses_in_base |-> 0,
      periodic_recovery_active |-> FALSE, periodic_recovery_spins_done |-> 0,
      periodic_recovery_max_spins |-> PeriodicRecoveryMaxSpins,
      recover66_active |-> FALSE, recover66_wins_done |-> 0,
      bank_fixed_at_trigger |-> None,
      global_sl_active |-> FALSE,
      \* locals of start()
      current_balance |-> 0, payout |-> None, bet |-> 0, wrap_event |-> FALSE,
      in_periodic |-> FALSE, in_recover66 |-> FALSE, win |-> FALSE,
      new_balance |-> 0,
      \* BotManagerApp: is the bot registered, the callback root.after holds
      registered |-> FALSE,
      sl_timer |-> FALSE,        \* _resume of schedule_bot_pause
      \* history (no code reads it)
      rounds |-> 0,              \* wagers settled
      episode_rounds |-> 0,      \* wagers settled in the latest periodic recovery
      after_sl |-> FALSE,        \* the stop-loss ended a recovery, no wager placed since
      after_cooldown |-> FALSE ] \* the cooldown has elapsed, no wager placed since

\* The cover variant with no bot started.
CoverIdle == cover = NewCover(0, FALSE)

\* ------------------- shared-recovery variant (100-9999_cover%$): its bounds
\* Largest bank the executor pays out to, and the rounds the fleet is followed to.
MaxSharedBank == 6
MaxSharedRounds == 3

\* Number of rounds a bot that runs alone is followed to.
MaxSoloRounds == 5

\* The form of the shared-recovery variant, in quanta of the minimum bet.
SharedInitialBalance == 3
SharedBaseBet == 1
SharedMinBet == 1
SharedMaxBetLimit == 2
SharedStartPayout == 2
SharedMaxPayout == 3
RecoveryMinPayout == 2
RecoveryMaxPayout == 3
RecoveryUsdtPerWin == 2
RecoveryDdUsdt == 2

\* A CryptoGamesBot of the shared-recovery variant after __init__, the locals
\* of its start(), and its record in BotManagerApp.all_banks.
\* The stake of a press wager and the roll of a win at or above 99.
SharedPressBet == 1
SharedHighRoll == 99

NewShared ==
    [pc |-> "idle", is_running |-> FALSE, paused |-> FALSE,
     balance |-> SharedInitialBalance,
     initial_bank |-> None, last_successful_bank |-> None,
     recovery_active |-> FALSE, recovery_shared_S_ref |-> None,
     recovery_divisor |-> 1, recovery_target_end |-> None,
     recovery_payout |-> RecoveryMinPayout,
     current_payout |-> SharedStartPayout,
     current_balance |-> 0, mode |-> "", payout |-> 0, bet |-> 0,
     bank_current |-> 0, bank_last |-> 0,
     enable_highroll_99 |-> FALSE,
     press_active |-> FALSE, press_left |-> 0, press_payout |-> None,
     rounds |-> 0]

\* The manager of the shared-recovery variant after __init__.
NewMgr ==
    [bot |-> [b \in Bots |-> NewShared], active_bots |-> <<>>,
     recovery_global_active |-> FALSE, resume |-> {}]

MgrIdle == mgr = NewMgr

Max(a, b) == IF a >= b THEN a ELSE b
Min(a, b) == IF a <= b THEN a ELSE b

\* Decimal.quantize with ROUND_UP and one that drops a further quantum: what
\* quantize_bet would be under another rounding.
quantize_bet_up(num, den) ==
    IF num >= 0 THEN (num + den - 1) \div den ELSE -(((-num) + den - 1) \div den)

quantize_bet_drop(num, den) ==
    IF num >= 0 THEN (num \div den) - 1 ELSE -((-num) \div den) - 1

\* quantize_bet applied to the rational num/den (den > 0) of quanta:
\* Decimal.quantize(ROUND_DOWN) drops the fraction of a quantum, towards zero.
quantize_bet(num, den) ==
    IF num >= 0 THEN num \div den ELSE -((-num) \div den)

\* _gen_recovery_Ms: the descending ladder and its reverse.  The code's ladder
\* is 1000, 998, .., 50; the model keeps its shape on a ladder of two rungs.
gen_recovery_Ms(desc) == IF desc THEN <<4, 2>> ELSE <<2, 4>>

\* _recovery_min_bet_eff with self.min_bet as the service reports it.
recovery_min_bet_eff ==
    Max(IF MinBetSetting <= 0 THEN 1 ELSE MinBetSetting, MinBetEnforced)

\* _compute_recovery_bet without "b_req = min(b_req, cap)";
\* C16_CapOrMinimum tells the two apart.
compute_recovery_bet_uncapped(current_balance, payout, t_num, t_den, min_bet_eff) ==
    IF payout <= 1 THEN min_bet_eff
    ELSE LET b_req == IF t_num > 0
                      THEN quantize_bet(t_num, t_den * (payout - 1))
                      ELSE min_bet_eff
             bet0  == Max(min_bet_eff, b_req)
             bet1  == IF bet0 > MaxBetLimit THEN MaxBetLimit ELSE bet0
         IN  IF bet1 > current_balance /\ current_balance >= min_bet_eff
             THEN quantize_bet(current_balance, 1)
             ELSE bet1

\* _compute_recovery_bet; target_T is the rational t_num/t_den.  The floor of
\* quantize_bet is taken of b_req and of the cap before min/max, which gives
\* the same amount because min_bet_eff is a whole number of quanta.
compute_recovery_bet(current_balance, payout, t_num, t_den, min_bet_eff) ==
    IF payout <= 1 THEN min_bet_eff
    ELSE LET b_req == IF t_num > 0
                      THEN quantize_bet(t_num, t_den * (payout - 1))
                      ELSE min_bet_eff
             cap0  == IF current_balance > 0
                      THEN quantize_bet(current_balance * RecoveryCapPct, 100)
                      ELSE min_bet_eff
             cap   == IF cap0 <= min_bet_eff THEN min_bet_eff ELSE cap0
             bet0  == Max(min_bet_eff, Min(b_req, cap))
             bet1  == IF bet0 > MaxBetLimit THEN MaxBetLimit ELSE bet0
         IN  IF bet1 > current_balance /\ current_balance >= min_bet_eff
             THEN quantize_bet(current_balance, 1)
             ELSE bet1

\* LinearPayoutStrategy.next_payout_and_bet: the scanner position after a step.
next_payout(p) == IF p + 1 > MaxPayout THEN StartPayout ELSE p + 1

\* bot.last_successful_bank if it is not None else bot.initial_bank
hwm_or_initial(r) ==
    IF r.last_successful_bank # None THEN r.last_successful_bank
    ELSE r.initial_bank

\* ------------------------------------------------------------ initial state
NewBot(sow, rec, hr) ==
    [ pc |-> "idle",
      is_running |-> FALSE, paused |-> FALSE,
      stop_on_win |-> sow, enable_highroll_99 |-> hr,
      recovery_enabled_var |-> rec,
      balance |-> InitialBalance,
      initial_bank |-> None, last_successful_bank |-> None,
      loss_sum |-> 0,
      current_payout |-> StartPayout,
      press_active |-> FALSE, press_left |-> 0, press_payout |-> None,
      press_run |-> 0,       \* history: PRESS wagers settled since _activate_press
      press_won |-> FALSE,   \* history: one of them was won (no code reads either)
      recovery_enabled |-> FALSE, recovery_active |-> FALSE,
      recovery_activation_loss |-> 0, recovery_losses_so_far |-> 0,
      recovery_direction_desc |-> TRUE, recovery_i |-> 0,
      recovery_last_roll |-> None,
      spin_count |-> 0,
      current_balance |-> 0, mode |-> "BASE", payout |-> None, bet |-> 0,
      new_balance |-> 0, win |-> FALSE, roll_val |-> None,
      wager |-> "MAIN", global_max |-> None, bots_seq |-> <<>>, k |-> 0 ]

NewHist ==
    [ iter_main |-> 0, iter_press |-> 0,       \* wagers placed in the current loop iteration
      exit |-> "",                             \* why start() left its loop
      stop_at |-> "", after_stop |-> 0,        \* where stop() found the loop; wagers placed since
      errored |-> FALSE,                       \* the last wager got an error reply
      round_payout |-> None, round_roll |-> None,  \* scanner and stored roll when the round began
      ended_by_win |-> FALSE,                  \* the last round ended the recovery by a win
      last_mode |-> "",                        \* mode of the last main wager placed
      outlived |-> None,                       \* the reference another bot reached while this
                                               \* bot was, and still is, in recovery
      sync_before |-> None,                    \* max high-water mark when the running sync began
      sync_live |-> {} ]                       \* the bots registered when it began

\* One bot tab with its form filled in (stop on win, recovery check box); the
\* operator starts, pauses and stops the bot.
Init ==
    /\ \E sow \in BOOLEAN, rec \in BOOLEAN :
          bots = [b \in Bots |->
                    IF b = 1 THEN NewBot(sow, rec, FALSE)
                    ELSE [NewBot(FALSE, FALSE, FALSE) EXCEPT !.pc = "notab"]]
    /\ active_bots = <<>>
    /\ hist = [b \in Bots |-> NewHist]
    /\ calc = NoCalc
    /\ MgrIdle
    /\ CoverIdle

\* A tab for every bot of the fleet, the recovery check box ticked on each.
InitFleet ==
    /\ bots = [b \in Bots |-> NewBot(FALSE, TRUE, FALSE)]
    /\ active_bots = <<>>
    /\ hist = [b \in Bots |-> NewHist]
    /\ calc = NoCalc
    /\ MgrIdle
    /\ CoverIdle

\* ---------------------------------------------------------------- UI thread
registered(b) == \E i \in 1..Len(active_bots) : active_bots[i] = b

\* active_bots.pop(bot_id, None)
without(seq, b) == SelectSeq(seq, LAMBDA x : x # b)

\* BotTab.start_bot: configures the bot from the form (the recovery check box
\* sets recovery_enabled), starts its thread and registers it with the manager.
StartBot(b) ==
    /\ bots[b].pc = "idle"
    /\ bots' = [bots EXCEPT ![b].pc = "start",
                            ![b].recovery_enabled = bots[b].recovery_enabled_var]
    /\ active_bots' = Append(active_bots, b)
    /\ UNCHANGED hist

\* BotTab.toggle_pause -> CryptoGamesBot.pause_toggle; the button is enabled
\* from start_bot to stop_bot.
TogglePause(b) ==
    /\ registered(b)
    /\ bots' = [bots EXCEPT ![b].paused = ~bots[b].paused]
    /\ UNCHANGED <<active_bots, hist>>

\* BotTab.stop_bot -> CryptoGamesBot.stop, BotManagerApp.unregister_bot.
StopBot(b) ==
    /\ registered(b)
    /\ bots' = [bots EXCEPT ![b].is_running = FALSE, ![b].paused = FALSE]
    /\ active_bots' = without(active_bots, b)
    /\ hist' = [hist EXCEPT ![b].stop_at =
                   IF bots[b].pc = "pausewait" /\ ~bots[b].paused THEN "unpaused"
                   ELSE bots[b].pc]

\* ------------------------------------------------- CryptoGamesBot.start()
\* The statements of start() before its loop.
Preamble(b) ==
    LET r  == bots[b]
        ib == IF r.initial_bank = None THEN r.balance ELSE r.initial_bank
    IN  /\ r.pc = "start"
        /\ bots' = [bots EXCEPT ![b] =
              [r EXCEPT !.is_running = TRUE, !.paused = FALSE,
                        !.current_balance = r.balance,
                        !.loss_sum = 0, !.spin_count = 0,
                        !.initial_bank = ib,
                        !.last_successful_bank =
                            IF r.last_successful_bank = None THEN ib
                            ELSE r.last_successful_bank,
                        !.pc = "check"]]
        /\ UNCHANGED <<active_bots, hist>>

\* The iterations the loops are followed to: a tab without a bot leaves the
\* other bot alone.
spin_budget ==
    IF \E b \in Bots : bots[b].pc = "notab" THEN MaxSpins ELSE MaxFleetSpins

RECURSIVE spins(_)
spins(S) == IF S = {} THEN 0
            ELSE LET b == CHOOSE x \in S : TRUE
                 IN  bots[b].spin_count + spins(S \ {b})

\* while self.is_running:
LoopCheck(b) ==
    LET r == bots[b] IN
    /\ r.pc = "check"
    /\ r.is_running => spins(Bots) < spin_budget
    /\ bots' = [bots EXCEPT ![b].pc = IF r.is_running THEN "pausewait" ELSE "done"]
    /\ hist' = [hist EXCEPT ![b].iter_main = 0, ![b].iter_press = 0,
                            ![b].exit = IF r.is_running THEN "" ELSE "stopped"]
    /\ UNCHANGED active_bots

\* while self.paused and self.is_running: time.sleep(0.1)
PauseWait(b) ==
    LET r == bots[b] IN
    /\ r.pc = "pausewait"
    /\ ~(r.paused /\ r.is_running)
    /\ bots' = [bots EXCEPT ![b].pc = "body"]
    /\ UNCHANGED <<active_bots, hist>>

\* start_recovery as the loop calls it when the drawdown from
\* max(last_successful_bank, initial_bank) reaches recovery_auto_threshold_usdt.
\* recovery_Ms is always _gen_recovery_Ms(recovery_direction_desc), so the
\* ladder is read from the direction.
auto_start_recovery(r) ==
    LET baseline == Max(IF r.last_successful_bank # None
                        THEN r.last_successful_bank ELSE 0,
                        IF r.initial_bank # None THEN r.initial_bank ELSE 0)
        init     == IF r.initial_bank # None THEN r.initial_bank
                    ELSE r.current_balance
    IN  IF /\ ~r.recovery_active
           /\ r.recovery_enabled
           /\ RecoveryAutoThreshold > 0
           /\ baseline > 0
           /\ r.current_balance <= baseline - RecoveryAutoThreshold
        THEN [r EXCEPT !.recovery_enabled = TRUE,
                       !.recovery_activation_loss = Max(0, init - r.current_balance),
                       !.recovery_losses_so_far = 0,
                       !.recovery_direction_desc = TRUE,
                       !.recovery_i = 0,
                       !.recovery_last_roll = None,
                       !.recovery_active = TRUE]
        ELSE r

\* The recovery branch of the main wager: RECOVERY-TRIGGER at payout 5 after a
\* roll at the trigger threshold, else the next rung of the ladder; then the
\* funds check, which stakes the whole bank or stops the bot.
recovery_round(r) ==
    LET cb    == r.current_balance
        al    == IF r.initial_bank # None THEN Max(0, r.initial_bank - cb)
                 ELSE r.recovery_activation_loss
        trig  == r.recovery_last_roll # None
                 /\ r.recovery_last_roll >= RecoveryTriggerThreshold
        m     == recovery_min_bet_eff
        Ms    == gen_recovery_Ms(r.recovery_direction_desc)
        i     == IF r.recovery_i < Len(Ms) THEN r.recovery_i ELSE 0
        r1    == IF trig /\ RecoveryTriggerPctBank > 0
                 THEN [r EXCEPT
                         !.recovery_activation_loss = al,
                         !.payout = TriggerPayout,
                         !.bet = compute_recovery_bet(cb, TriggerPayout,
                                    RecoveryTriggerPctBank *
                                       (IF cb > 0 THEN cb
                                        ELSE Max(r.initial_bank, 0)),
                                    100, m),
                         !.mode = "RECOVERY-TRIGGER",
                         !.recovery_last_roll = 0]
                 ELSE [r EXCEPT
                         !.recovery_activation_loss = al,
                         !.recovery_i = i,
                         !.payout = Ms[i + 1],
                         !.bet = compute_recovery_bet(cb, Ms[i + 1],
                                    RecoveryPctActivation * al
                                    + RecoveryPctTotalLosses * r.recovery_losses_so_far,
                                    100, m),
                         !.mode = "RECOVERY"]
    IN  IF r1.bet > cb
        THEN IF cb >= m
             THEN [r1 EXCEPT !.bet = quantize_bet(cb, 1)]
             ELSE [r1 EXCEPT !.is_running = FALSE, !.paused = FALSE, !.pc = "done"]
        ELSE r1

\* The BASE branch: the scanner's multiplier at the configured stake.
base_round(r) ==
    [r EXCEPT !.payout = r.current_payout,
              !.current_payout = next_payout(r.current_payout),
              !.bet = Max(BaseBet, MinBetEnforced),
              !.mode = "BASE"]

\* What the history records when bot b places a wager.
placed(h, main) ==
    [h EXCEPT !.iter_main = IF main THEN h.iter_main + 1 ELSE h.iter_main,
              !.iter_press = IF main THEN h.iter_press ELSE h.iter_press + 1,
              !.after_stop = IF h.stop_at # "" THEN Min(h.after_stop + 1, 2)
                             ELSE h.after_stop]

\* The loop body from the balance read to the call of api.placebet for the
\* main wager (or the break when the funds do not cover it).
RoundBegin(b) ==
    LET r0 == [bots[b] EXCEPT !.current_balance = bots[b].balance]
        r1 == auto_start_recovery(r0)
        r2 == IF r1.recovery_active THEN recovery_round(r1) ELSE base_round(r1)
        r3 == [r2 EXCEPT !.bet = quantize_bet(r2.bet, 1)]
        h0 == [hist[b] EXCEPT !.errored = FALSE,
                              !.round_payout = r0.current_payout,
                              !.round_roll = r0.recovery_last_roll]
    IN  /\ bots[b].pc = "body"
        /\ IF r3.pc = "done"
           THEN /\ bots' = [bots EXCEPT ![b] = r3]
                /\ hist' = [hist EXCEPT ![b] = [h0 EXCEPT !.exit = "recovery_funds"]]
           ELSE IF r3.bet > r3.current_balance
           THEN /\ bots' = [bots EXCEPT ![b] = [r3 EXCEPT !.pc = "done"]]
                /\ hist' = [hist EXCEPT ![b] = [h0 EXCEPT !.exit = "funds"]]
           ELSE /\ bots' = [bots EXCEPT ![b] = [r3 EXCEPT !.pc = "inflight",
                                                          !.wager = "MAIN"]]
                /\ hist' = [hist EXCEPT ![b] =
                              [placed(h0, TRUE) EXCEPT !.last_mode = r3.mode]]
        /\ UNCHANGED active_bots

\* The locals of the loop body between two iterations.
reset_locals(r) ==
    [r EXCEPT !.current_balance = 0, !.mode = "BASE", !.payout = None,
              !.bet = 0, !.new_balance = 0, !.win = FALSE, !.roll_val = None,
              !.wager = "MAIN", !.global_max = None, !.bots_seq = <<>>, !.k = 0]

\* _activate_press
activate_press(r, payout) ==
    [r EXCEPT !.press_active = TRUE, !.press_left = PressSpins,
              !.press_payout = payout,
              !.press_run = 0, !.press_won = FALSE]

\* The end of the loop body: the triggers that arm a press series for the next
\* iteration, spin_count += 1 and the sleep.
end_iteration(r) ==
    LET band == /\ r.payout # None
                /\ PressBandLow <= r.payout /\ r.payout <= PressBandHigh
                /\ r.roll_val # None /\ r.roll_val >= PressRollThreshold
        r1 == IF r.paused THEN r
              ELSE IF r.enable_highroll_99 /\ r.roll_val # None
                   THEN IF r.roll_val >= HighrollThreshold
                        THEN activate_press(r, HighrollPressPayout)
                        ELSE IF band THEN activate_press(r, PressPayout) ELSE r
                   ELSE IF band THEN activate_press(r, PressPayout) ELSE r
    IN  reset_locals([r1 EXCEPT !.spin_count = r.spin_count + 1, !.pc = "check"])

\* "if self.press_active and self.press_left > 0 and self.press_payout is not
\* None": the loop goes on to the additional PRESS wager or to its end.
press_stage(r) ==
    IF r.press_active /\ r.press_left > 0 /\ r.press_payout # None
    THEN [r EXCEPT !.pc = "press"]
    ELSE end_iteration(r)

\* The global synchronisation of a win begins: global_max = new_balance and
\* the first snapshot list(mgr.active_bots.values()).
begin_sync(r, amount) ==
    [r EXCEPT !.global_max = amount, !.bots_seq = active_bots, !.k = 1,
              !.pc = "sync_read"]

\* recovery_after_loss without the reversal: the index runs off the ladder;
\* C15_LadderPingPong tells the two apart.
recovery_after_loss_no_reverse(r) ==
    IF ~r.recovery_active THEN r
    ELSE LET r1 == [r EXCEPT !.recovery_losses_so_far = @ + r.bet]
         IN  IF r.mode # "RECOVERY" THEN r1
             ELSE [r1 EXCEPT !.recovery_i = @ + 1]

\* Recovery bookkeeping after a lost main wager.
recovery_after_loss(r) ==
    IF ~r.recovery_active THEN r
    ELSE LET r1 == [r EXCEPT !.recovery_losses_so_far = @ + r.bet]
             n  == r.recovery_i + 1
         IN  IF r.mode # "RECOVERY" THEN r1
             ELSE IF n >= Len(gen_recovery_Ms(r.recovery_direction_desc))
             THEN [r1 EXCEPT !.recovery_direction_desc = ~r.recovery_direction_desc,
                             !.recovery_i = 0]
             ELSE [r1 EXCEPT !.recovery_i = n]

\* The registered bots.
live == {active_bots[i] : i \in 1..Len(active_bots)}

\* The high-water marks of the registered bots and an amount: their maximum.
max_hwm(amount) ==
    LET S == {hwm_or_initial(bots[active_bots[i]]) : i \in 1..Len(active_bots)}
             \cup {amount}
    IN  CHOOSE x \in S : \A y \in S : y <= x

\* The main wager gets an error reply: log, sleep(1), continue.
MainError(b) ==
    LET r == bots[b] IN
    /\ r.pc = "inflight"
    /\ bots' = [bots EXCEPT ![b] = reset_locals([r EXCEPT !.pc = "check"])]
    /\ hist' = [hist EXCEPT ![b].errored = TRUE, ![b].ended_by_win = FALSE]
    /\ UNCHANGED active_bots

\* The main wager is won: the statements of the win branch up to the start of
\* the global synchronisation of last_successful_bank.
MainWin(b, roll) ==
    LET r  == bots[b]
        nb == r.balance + r.bet * (r.payout - 1)
        r1 == [r EXCEPT !.balance = nb, !.new_balance = nb,
                        !.roll_val = roll, !.recovery_last_roll = roll,
                        !.win = TRUE, !.loss_sum = 0,
                        !.last_successful_bank =
                            IF @ = None \/ nb > @ THEN nb ELSE @]
    IN  /\ r.pc = "inflight"
        /\ nb <= MaxBank
        /\ bots' = [bots EXCEPT ![b] = begin_sync(r1, nb)]
        /\ hist' = [hist EXCEPT ![b].round_payout = None,
                                ![b].round_roll = None,
                                ![b].ended_by_win = FALSE,
                                ![b].sync_before = max_hwm(nb),
                                ![b].sync_live = live]
        /\ UNCHANGED active_bots

\* The main wager is lost: the loss branch, the recovery bookkeeping of a
\* loss, and on to the press stage.
MainLoss(b, roll) ==
    LET r  == bots[b]
        nb == r.balance - r.bet
        r1 == [r EXCEPT !.balance = nb, !.new_balance = nb,
                        !.roll_val = roll, !.recovery_last_roll = roll,
                        !.win = FALSE, !.loss_sum = @ + r.bet]
    IN  /\ r.pc = "inflight"
        /\ r.recovery_active =>
              r.recovery_losses_so_far + r.bet <= MaxRecoveryLosses
        /\ bots' = [bots EXCEPT ![b] = press_stage(recovery_after_loss(r1))]
        /\ hist' = [hist EXCEPT ![b].round_payout = None,
                                ![b].round_roll = None,
                                ![b].ended_by_win = FALSE]
        /\ UNCHANGED active_bots

\* One pass of "for bot in list(mgr.active_bots.values())" that reads a
\* high-water mark: of the synchronisation of a win (pc "sync_read") or of
\* _get_global_max_last_successful (pc "target_read").  After the last bot of
\* the snapshot the synchronisation takes its second snapshot and goes on to
\* write; the recovery check goes on with the maximum it found.
after_reads(r) ==
    IF r.pc = "sync_read"
    THEN [r EXCEPT !.pc = "sync_write", !.bots_seq = active_bots, !.k = 1]
    ELSE [r EXCEPT !.pc = "post_recovery", !.bots_seq = <<>>, !.k = 0]

ReadHwm(b) ==
    LET r   == bots[b]
        val == hwm_or_initial(bots[r.bots_seq[r.k]])
        r1  == IF r.k > Len(r.bots_seq) THEN r
               ELSE [r EXCEPT !.global_max =
                                 IF val # None /\ val > @ THEN val ELSE @,
                              !.k = @ + 1]
    IN  /\ r.pc \in {"sync_read", "target_read"}
        /\ bots' = [bots EXCEPT ![b] =
                      IF r1.k > Len(r1.bots_seq) THEN after_reads(r1) ELSE r1]
        /\ UNCHANGED <<active_bots, hist>>

\* The statements after the synchronisation of a won main wager: stop_on_win
\* pauses the bot (not in the recovery modes); an active recovery refreshes
\* recovery_activation_loss and starts the search of the global target.
after_win(r) ==
    LET r1 == IF r.stop_on_win /\ r.mode \notin RecoveryModes
              THEN [r EXCEPT !.paused = TRUE] ELSE r
    IN  IF r1.recovery_active
        THEN [r1 EXCEPT !.recovery_activation_loss =
                           IF r.initial_bank # None
                           THEN Max(0, r.initial_bank - r.new_balance) ELSE @,
                        !.global_max = None, !.bots_seq = active_bots,
                        !.k = 1, !.pc = "target_read"]
        ELSE press_stage(r1)

\* One pass of "for bot in list(mgr.active_bots.values()):
\* bot.last_successful_bank = global_max"; after the last bot of the snapshot
\* the loop body goes on after the synchronisation.
after_writes(r) ==
    IF r.wager = "MAIN" THEN after_win(r) ELSE [r EXCEPT !.pc = "post_press"]

WriteHwm(b) ==
    LET r  == bots[b]
        o  == r.bots_seq[r.k]
        w  == IF r.k > Len(r.bots_seq) THEN bots
              ELSE [bots EXCEPT ![o].last_successful_bank = r.global_max]
        r1 == IF r.k > Len(r.bots_seq) THEN w[b] ELSE [w[b] EXCEPT !.k = @ + 1]
    IN  /\ r.pc = "sync_write"
        /\ bots' = [w EXCEPT ![b] =
                      IF r1.k > Len(r1.bots_seq) THEN after_writes(r1) ELSE r1]
        /\ hist' = IF r1.k > Len(r1.bots_seq)
                   THEN [hist EXCEPT ![b].sync_before = None,
                                     ![b].sync_live = {}]
                   ELSE hist
        /\ UNCHANGED active_bots

\* The recovery check after a won main wager, with the maximum that
\* _get_global_max_last_successful found (its fallback is the bot's own
\* high-water mark, initial bank or 0): the recovery of this bot is over when
\* new_balance >= global_target.
PostRecovery(b) ==
    LET r      == bots[b]
        target == IF r.global_max # None THEN r.global_max
                  ELSE Max(hwm_or_initial(r), 0)
        over   == r.new_balance >= target
        r1     == IF over
                  THEN [r EXCEPT !.recovery_active = FALSE,
                                 !.recovery_enabled = FALSE,
                                 !.recovery_losses_so_far = 0]
                  ELSE r
    IN  /\ r.pc = "post_recovery"
        /\ bots' = [bots EXCEPT ![b] = press_stage(r1)]
        /\ hist' = IF over
                   THEN [o \in Bots |->
                           IF o = b
                           THEN [hist[o] EXCEPT !.ended_by_win = TRUE,
                                                !.outlived = None]
                           ELSE IF bots[o].recovery_active
                           THEN [hist[o] EXCEPT !.outlived = target]
                           ELSE hist[o]]
                   ELSE hist
        /\ UNCHANGED active_bots

\* quantize_bet(press_bet) limited by max_bet_limit
press_bet_of == Min(quantize_bet(PressBet, 1), MaxBetLimit)

\* The additional PRESS wager of the iteration: placed when the bank after the
\* main wager covers it, else skipped.
PlacePress(b) ==
    LET r == bots[b] IN
    /\ r.pc = "press"
    /\ IF press_bet_of <= r.new_balance
       THEN /\ bots' = [bots EXCEPT ![b].pc = "press_inflight", ![b].wager = "PRESS"]
            /\ hist' = [hist EXCEPT ![b] = placed(hist[b], FALSE)]
       ELSE /\ bots' = [bots EXCEPT ![b] = end_iteration(r)]
            /\ UNCHANGED hist
    /\ UNCHANGED active_bots

\* The PRESS wager gets an error reply: it is logged and the iteration ends.
PressError(b) ==
    LET r == bots[b] IN
    /\ r.pc = "press_inflight"
    /\ bots' = [bots EXCEPT ![b] = end_iteration(r)]
    /\ UNCHANGED <<active_bots, hist>>

\* The PRESS wager is won: the global synchronisation starts from new_balance2.
PressWin(b) ==
    LET r  == bots[b]
        nb == r.balance + press_bet_of * (r.press_payout - 1)
    IN  /\ r.pc = "press_inflight"
        /\ nb <= MaxBank
        /\ bots' = [bots EXCEPT ![b] =
                      begin_sync([r EXCEPT !.balance = nb,
                                           !.press_run = @ + 1,
                                           !.press_won = TRUE], nb)]
        /\ hist' = [hist EXCEPT ![b].sync_before = max_hwm(nb),
                                ![b].sync_live = live]
        /\ UNCHANGED active_bots

\* After the synchronisation of a won PRESS wager: new_balance = new_balance2,
\* the press series ends, the iteration ends.
PostPress(b) ==
    LET r == bots[b] IN
    /\ r.pc = "post_press"
    /\ bots' = [bots EXCEPT ![b] =
                  end_iteration([r EXCEPT !.new_balance = r.balance,
                                          !.press_active = FALSE,
                                          !.press_left = 0,
                                          !.press_payout = None])]
    /\ UNCHANGED <<active_bots, hist>>

\* PressLoss with the loop going back to the press stage instead of ending the
\* iteration; C8_OneMainOnePress tells the two apart.
PressLossRepress(b) ==
    LET r    == bots[b]
        nb   == r.balance - press_bet_of
        left == r.press_left - 1
        r1   == [r EXCEPT !.balance = nb, !.new_balance = nb,
                          !.loss_sum = @ + press_bet_of,
                          !.press_run = @ + 1,
                          !.press_left = left,
                          !.press_active = IF left <= 0 THEN FALSE ELSE @,
                          !.press_payout = IF left <= 0 THEN None ELSE @]
    IN  /\ r.pc = "press_inflight"
        /\ bots' = [bots EXCEPT ![b] = press_stage(r1)]
        /\ UNCHANGED <<active_bots, hist>>

\* PressLoss without "self.press_left -= 1": a lost PRESS wager leaves the
\* series as it was; C12_PressSeriesBounded tells the two apart.
PressLossUnbounded(b) ==
    LET r    == bots[b]
        nb   == r.balance - press_bet_of
        r1   == [r EXCEPT !.balance = nb, !.new_balance = nb,
                          !.loss_sum = @ + press_bet_of,
                          !.press_run = @ + 1]
    IN  /\ r.pc = "press_inflight"
        /\ bots' = [bots EXCEPT ![b] = end_iteration(r1)]
        /\ UNCHANGED <<active_bots, hist>>

\* The PRESS wager is lost: loss_sum grows by it, the series loses one spin
\* and ends with its last one.
PressLoss(b) ==
    LET r    == bots[b]
        nb   == r.balance - press_bet_of
        left == r.press_left - 1
        r1   == [r EXCEPT !.balance = nb, !.new_balance = nb,
                          !.loss_sum = @ + press_bet_of,
                          !.press_run = @ + 1,
                          !.press_left = left,
                          !.press_active = IF left <= 0 THEN FALSE ELSE @,
                          !.press_payout = IF left <= 0 THEN None ELSE @]
    IN  /\ r.pc = "press_inflight"
        /\ bots' = [bots EXCEPT ![b] = end_iteration(r1)]
        /\ UNCHANGED <<active_bots, hist>>

\* A step of the thread of bot b.
Engine(b) ==
    \/ Preamble(b)
    \/ LoopCheck(b)
    \/ PauseWait(b)
    \/ RoundBegin(b)
    \/ MainError(b)
    \/ \E roll \in Rolls : MainWin(b, roll)
    \/ \E roll \in Rolls : MainLoss(b, roll)
    \/ ReadHwm(b)
    \/ WriteHwm(b)
    \/ PostRecovery(b)
    \/ PlacePress(b)
    \/ PressError(b)
    \/ PressWin(b)
    \/ PostPress(b)
    \/ PressLoss(b)

\* One bot and its operator.
Next ==
    /\ \E b \in Bots :
          \/ StartBot(b)
          \/ TogglePause(b)
          \/ StopBot(b)
          \/ Engine(b)
    /\ UNCHANGED <<calc, cover, mgr>>

Spec == Init /\ [][Next]_vars

\* The fleet running without a hand on the pause and stop buttons.
NextFleet ==
    /\ \E b \in Bots :
          \/ StartBot(b)
          \/ Engine(b)
    /\ UNCHANGED <<calc, cover, mgr>>

SpecFleet == InitFleet /\ [][NextFleet]_vars

\* The automation alone: one bot, started and then left to itself.
SpecAuto == Init /\ [][NextFleet]_vars

\* ------------------------------------------------ the sizing functions
\* Bounds of the arguments the sizing functions are called with.
MaxCalcBank == 60
MaxCalcTarget == 8
CalcPayouts == {1, 2, 5}
CalcMinBets == {1, 2}

\* A call of _compute_recovery_bet(current_balance, payout, target_T,
\* min_bet_eff) with a whole target_T.
InitCalc ==
    /\ bots = [b \in Bots |-> NewBot(FALSE, FALSE, FALSE)]
    /\ active_bots = <<>>
    /\ hist = [b \in Bots |-> NewHist]
    /\ \E cb \in 0..MaxCalcBank, p \in CalcPayouts,
          t \in 0..MaxCalcTarget, m \in CalcMinBets :
          calc = [fn |-> "compute_recovery_bet",
                  args |-> [current_balance |-> cb, payout |-> p,
                            target_T |-> t, min_bet_eff |-> m],
                  out |-> None]
    /\ CoverIdle
    /\ MgrIdle

\* The call returns.
CallComputeRecoveryBet ==
    /\ calc.fn = "compute_recovery_bet" /\ calc.out = None
    /\ calc' = [calc EXCEPT !.out =
                  compute_recovery_bet(calc.args.current_balance, calc.args.payout,
                                       calc.args.target_T, 1, calc.args.min_bet_eff)]
    /\ UNCHANGED <<bots, active_bots, hist, cover, mgr>>

NextCalc ==
    \/ CallComputeRecoveryBet

SpecCalc == InitCalc /\ [][NextCalc]_vars

\* ------------------------- cover variant (cover_Version11_Version13)
\* compute_bet_for_target_profit if a quotient above max_bet_limit were
\* rejected (min_bet placed) instead of capped.
compute_bet_for_target_profit_reject(p_num, p_den, t_num, t_den, min_bet, max_bet_limit, current_bank) ==
    LET dn   == IF p_num - p_den <= 0 THEN p_den ELSE p_num - p_den
        bet0 == (t_num * p_den) \div (t_den * dn)
        bet1 == IF max_bet_limit # None /\ bet0 > max_bet_limit
                THEN min_bet ELSE bet0
        bet2 == IF bet1 > current_bank THEN current_bank ELSE bet1
        bet3 == IF bet2 < min_bet THEN min_bet ELSE bet2
    IN  IF bet3 <= 0 THEN 1 ELSE bet3

\* compute_bet_for_target_profit without its max_bet_limit cap;
\* C27_NeverAboveMaxOrMin tells the two apart.
compute_bet_for_target_profit_uncapped(p_num, p_den, t_num, t_den, min_bet, max_bet_limit, current_bank) ==
    LET dn   == IF p_num - p_den <= 0 THEN p_den ELSE p_num - p_den
        bet0 == quantize_bet(t_num * p_den, t_den * dn)
        bet3 == IF bet0 < min_bet THEN min_bet ELSE bet0
    IN  IF bet3 <= 0 THEN 1 ELSE bet3

\* compute_bet_for_target_profit with the payout the rational p_num/p_den,
\* target_profit the rational t_num/t_den and house_edge_frac 0: a
\* non-positive payout - 1 is replaced by 1; the quantized quotient is capped
\* by max_bet_limit (if any) and the bank, then raised to min_bet.
compute_bet_for_target_profit(p_num, p_den, t_num, t_den, min_bet, max_bet_limit, current_bank) ==
    LET dn   == IF p_num - p_den <= 0 THEN p_den ELSE p_num - p_den
        bet0 == quantize_bet(t_num * p_den, t_den * dn)
        bet1 == IF max_bet_limit # None /\ bet0 > max_bet_limit
                THEN max_bet_limit ELSE bet0
        bet2 == IF bet1 > current_bank THEN current_bank ELSE bet1
        bet3 == IF bet2 < min_bet THEN min_bet ELSE bet2
    IN  IF bet3 <= 0 THEN 1 ELSE bet3

\* compute_covering_bet_for_target (100-9999_Version2_Version9): a
\* non-positive payout - 1 returns min_bet; the quantized quotient is capped by
\* max_bet_limit (if any) and the bank; min_bet is not applied to it.
compute_covering_bet_for_target(p_num, p_den, t_num, t_den, min_bet, max_bet_limit, current_bank) ==
    LET dn   == p_num - p_den
        bet0 == quantize_bet(t_num * p_den, t_den * dn)
        bet1 == IF max_bet_limit # None /\ bet0 > max_bet_limit
                THEN max_bet_limit ELSE bet0
        bet2 == IF bet1 > current_bank THEN current_bank ELSE bet1
    IN  IF dn <= 0 THEN (IF min_bet = 0 THEN 1 ELSE min_bet)
        ELSE IF bet2 <= 0 THEN 1 ELSE bet2

\* MIN_ALLOWED_PAYOUT of cover_Version2_Version9, in hundredths.
MinAllowedPayout == 101

\* compute_covering_bet_for_target of cover_Version2_Version9 with
\* house_edge_frac and margin_ratio left at None: the payout is first raised
\* to MIN_ALLOWED_PAYOUT, the rest is as above.
compute_covering_bet_for_target_cover(p_num, p_den, t_num, t_den, min_bet, max_bet_limit, current_bank) ==
    IF p_num * 100 < MinAllowedPayout * p_den
    THEN compute_covering_bet_for_target(MinAllowedPayout, 100, t_num, t_den,
                                         min_bet, max_bet_limit, current_bank)
    ELSE compute_covering_bet_for_target(p_num, p_den, t_num, t_den,
                                         min_bet, max_bet_limit, current_bank)

\* LinearPayoutStrategy.next_payout: the scanner position after a step.
cover_next_payout(p) == IF p + 1 > CoverMaxPayout THEN CoverStartPayout ELSE p + 1

start_periodic_recovery(c) ==
    [c EXCEPT !.periodic_recovery_active = TRUE,
              !.periodic_recovery_spins_done = 0]

\* _stop_periodic_recovery clearing the spin count only;
\* C40_EpisodeBounded tells the two apart.
stop_periodic_recovery_keep(c) ==
    [c EXCEPT !.periodic_recovery_spins_done = 0]

stop_periodic_recovery(c) ==
    [c EXCEPT !.periodic_recovery_active = FALSE,
              !.periodic_recovery_spins_done = 0]

\* _maybe_start_recovery_from_base starting one loss late (count exceeded
\* rather than reached); C22_CountStartsRecoveryUnlessLocked tells the two apart.
maybe_start_recovery_from_base_late(c) ==
    IF c.base_post_sl_lock \/ c.recover66_active THEN c
    ELSE IF /\ ~c.periodic_recovery_active
            /\ BaseToRecoveryAfterSpins > 0
            /\ c.consecutive_losses_in_base > BaseToRecoveryAfterSpins
         THEN [start_periodic_recovery(c) EXCEPT !.consecutive_losses_in_base = 0]
         ELSE c

maybe_start_recovery_from_base(c) ==
    IF c.base_post_sl_lock \/ c.recover66_active THEN c
    ELSE IF /\ ~c.periodic_recovery_active
            /\ BaseToRecoveryAfterSpins > 0
            /\ c.consecutive_losses_in_base >= BaseToRecoveryAfterSpins
         THEN [start_periodic_recovery(c) EXCEPT !.consecutive_losses_in_base = 0]
         ELSE c

\* _check_recovery_stop_loss with the exit clearing loss_total as a win does;
\* C17_StopLossExit tells the two apart.
check_recovery_stop_loss_reset(c) ==
    IF c.periodic_recovery_active /\ c.loss_total >= RecoveryStopLoss
    THEN [stop_periodic_recovery(c) EXCEPT !.base_post_sl_lock = TRUE,
                                           !.loss_total = 0,
                                           !.after_sl = TRUE]
    ELSE c

check_recovery_stop_loss(c) ==
    IF c.periodic_recovery_active /\ c.loss_total >= RecoveryStopLoss
    THEN [stop_periodic_recovery(c) EXCEPT !.base_post_sl_lock = TRUE,
                                           !.after_sl = TRUE]
    ELSE c

\* _check_global_stop_loss and the schedule_bot_pause(seconds=600) it calls.
check_global_stop_loss(c) ==
    IF /\ c.global_stop_loss_usdt > 0
       /\ c.loss_total >= c.global_stop_loss_usdt
       /\ ~c.global_sl_active
    THEN [c EXCEPT !.loss_total = 0, !.cycle_loss = 0,
                   !.global_sl_active = TRUE, !.paused = TRUE,
                   !.sl_timer = TRUE, !.after_cooldown = FALSE]
    ELSE c

\* The locals of start() between two iterations.
cover_reset_locals(c) ==
    [c EXCEPT !.current_balance = 0, !.payout = None, !.bet = 0,
              !.wrap_event = FALSE, !.in_periodic = FALSE,
              !.in_recover66 = FALSE, !.win = FALSE, !.new_balance = 0]

\* BotTab.start_bot: a new bot with the form applied, its thread started,
\* registered with the manager.
CoverStartBot ==
    /\ cover.pc = "idle"
    /\ cover' = [cover EXCEPT !.pc = "start", !.registered = TRUE]
    /\ UNCHANGED <<bots, active_bots, hist, calc, mgr>>

\* BotTab.toggle_pause -> pause_toggle
CoverTogglePause ==
    /\ cover.registered
    /\ cover' = [cover EXCEPT !.paused = ~cover.paused]
    /\ UNCHANGED <<bots, active_bots, hist, calc, mgr>>

\* BotTab.stop_bot -> stop, unregister_bot
CoverStopBot ==
    /\ cover.registered
    /\ cover' = [cover EXCEPT !.is_running = FALSE, !.paused = FALSE,
                              !.registered = FALSE]
    /\ UNCHANGED <<bots, active_bots, hist, calc, mgr>>

\* _resume, the callback schedule_bot_pause left with root.after: the
\* cooldown of the global stop-loss has elapsed.
CoverSlResume ==
    /\ cover.sl_timer
    /\ cover' = [cover EXCEPT !.paused = FALSE, !.global_sl_active = FALSE,
                              !.sl_timer = FALSE, !.after_cooldown = TRUE]
    /\ UNCHANGED <<bots, active_bots, hist, calc, mgr>>

\* The statements of start() before its loop.
CoverPreamble ==
    /\ cover.pc = "start"
    /\ cover' = [cover EXCEPT !.is_running = TRUE, !.paused = FALSE,
                              !.balance_at_cycle_start = cover.balance,
                              !.pc = "check"]
    /\ UNCHANGED <<bots, active_bots, hist, calc, mgr>>

\* while self.is_running:
CoverLoopCheck ==
    /\ cover.pc = "check"
    /\ cover.is_running => cover.rounds < MaxCoverRounds
    /\ cover' = [cover EXCEPT !.pc = IF cover.is_running THEN "pausewait" ELSE "done"]
    /\ UNCHANGED <<bots, active_bots, hist, calc, mgr>>

\* while self.paused and self.is_running: time.sleep(0.1)
CoverPauseWait ==
    /\ cover.pc = "pausewait"
    /\ ~(cover.paused /\ cover.is_running)
    /\ cover' = [cover EXCEPT !.pc = "body"]
    /\ UNCHANGED <<bots, active_bots, hist, calc, mgr>>

\* The loop body from the balance read to the call of api.placebet: the
\* start of a periodic recovery, the payout, the wrap of the scanner, the
\* stake of the 66% mode, of the periodic recovery or of the base strategy.
cover_round(c0) ==
    LET cb   == c0.balance
        c1   == maybe_start_recovery_from_base([c0 EXCEPT !.current_balance = cb])
        per  == c1.periodic_recovery_active
        p    == IF per THEN PeriodicPayout ELSE c1.current_payout
        wrap == /\ ~per /\ c1.prev_payout # None
                /\ c1.prev_payout = CoverMaxPayout /\ p = CoverStartPayout
        in66 == c1.recover66_active /\ ~per
        fdd  == IF c1.bank_fixed_at_trigger # None
                THEN Max(0, c1.bank_fixed_at_trigger - cb) ELSE 0
        tnum == IF in66 THEN (fdd + c1.cycle_loss) * Recover66Percent
                ELSE IF per THEN c1.loss_total * RecoveryCoverPercent
                ELSE IF c1.base_post_sl_lock
                     THEN c1.loss_total * BaseCoverPercentAfterSl
                     ELSE c1.loss_total * 100
    IN  [c1 EXCEPT !.current_payout = IF per THEN @ ELSE cover_next_payout(@),
                   !.episode_rounds =
                       IF per /\ ~c0.periodic_recovery_active THEN 0 ELSE @,
                   !.payout = p, !.prev_payout = p, !.wrap_event = wrap,
                   !.in_recover66 = in66, !.in_periodic = per /\ ~in66,
                   !.bet = compute_bet_for_target_profit(p, 1, tnum, 100,
                              CoverMinBet, CoverMaxBetLimit, cb)]

CoverRoundBegin ==
    LET c == cover_round(cover) IN
    /\ cover.pc = "body"
    /\ cover' = IF c.bet > c.current_balance
                THEN [c EXCEPT !.pc = "done"]
                ELSE [c EXCEPT !.pc = "inflight", !.after_sl = FALSE,
                               !.after_cooldown = FALSE]
    /\ UNCHANGED <<bots, active_bots, hist, calc, mgr>>

\* The wager gets an error reply: log, sleep(1), continue.
CoverError ==
    /\ cover.pc = "inflight"
    /\ cover' = cover_reset_locals([cover EXCEPT !.pc = "check"])
    /\ UNCHANGED <<bots, active_bots, hist, calc, mgr>>

\* The wager is won: the statements up to the stop-loss checks.
CoverWin ==
    LET c    == cover
        nb   == c.balance + c.bet * (c.payout - 1)
        base == ~c.in_periodic /\ ~c.in_recover66
        c1   == [c EXCEPT !.balance = nb, !.new_balance = nb, !.win = TRUE,
                          !.cycle_loss = 0, !.last_spin_was_loss = FALSE,
                          !.loss_total = IF base THEN 0 ELSE @,
                          !.consecutive_losses_in_base = IF base THEN 0 ELSE @,
                          !.base_post_sl_lock = IF base THEN FALSE ELSE @]
        done == c.recover66_wins_done + 1 >= Recover66WinsTarget
        c2   == IF ~c.in_recover66 THEN c1
                ELSE IF done
                     THEN [c1 EXCEPT !.recover66_active = FALSE,
                                     !.recover66_wins_done = 0,
                                     !.bank_fixed_at_trigger = None]
                     ELSE [c1 EXCEPT !.recover66_wins_done = @ + 1]
        c3   == IF ~c.in_periodic THEN c2
                ELSE [stop_periodic_recovery(c2) EXCEPT
                         !.loss_total = 0,
                         !.current_payout = CoverStartPayout,
                         !.balance_at_cycle_start = nb]
        c4   == IF c.stop_on_win THEN [c3 EXCEPT !.paused = TRUE] ELSE c3
    IN  /\ c.pc = "inflight"
        /\ nb <= MaxCoverBank
        /\ cover' = [c4 EXCEPT !.rounds = @ + 1,
                               !.episode_rounds = IF c.in_periodic THEN @ + 1 ELSE @,
                               !.pc = "sl_check"]
        /\ UNCHANGED <<bots, active_bots, hist, calc, mgr>>

\* The wager is lost: the statements up to the stop-loss checks.
CoverLoss ==
    LET c    == cover
        nb   == c.balance - c.bet
        base == ~c.in_periodic /\ ~c.in_recover66
    IN  /\ c.pc = "inflight"
        /\ cover' = [c EXCEPT !.balance = nb, !.new_balance = nb, !.win = FALSE,
                              !.cycle_loss = @ + c.bet,
                              !.loss_total = @ + c.bet,
                              !.last_spin_was_loss = TRUE,
                              !.consecutive_losses_in_base =
                                  IF base THEN @ + 1 ELSE @,
                              !.rounds = @ + 1,
                              !.episode_rounds = IF c.in_periodic THEN @ + 1 ELSE @,
                              !.pc = "sl_check"]
        /\ UNCHANGED <<bots, active_bots, hist, calc, mgr>>

\* self._check_recovery_stop_loss()
CoverCheckRecoveryStopLoss ==
    /\ cover.pc = "sl_check"
    /\ cover' = [check_recovery_stop_loss(cover) EXCEPT !.pc = "gsl_check"]
    /\ UNCHANGED <<bots, active_bots, hist, calc, mgr>>

\* self._check_global_stop_loss()
CoverCheckGlobalStopLoss ==
    /\ cover.pc = "gsl_check"
    /\ cover' = [check_global_stop_loss(cover) EXCEPT !.pc = "tail"]
    /\ UNCHANGED <<bots, active_bots, hist, calc, mgr>>

\* The rest of the loop body: the spin budget of the periodic recovery, the
\* end of a scanner cycle (which starts or ends the 66% mode).
cover_wrap(c) ==
    IF ~c.wrap_event THEN c
    ELSE LET result == c.new_balance -
                         (IF c.balance_at_cycle_start # None
                          THEN c.balance_at_cycle_start ELSE c.new_balance)
             c1 == IF result < 0 /\ c.last_spin_was_loss
                      /\ ~c.periodic_recovery_active
                   THEN [c EXCEPT !.recover66_active = TRUE,
                                  !.recover66_wins_done = 0,
                                  !.bank_fixed_at_trigger = c.balance_at_cycle_start]
                   ELSE [c EXCEPT !.recover66_active = FALSE,
                                  !.recover66_wins_done =
                                      IF c.recover66_active THEN 0 ELSE @,
                                  !.bank_fixed_at_trigger =
                                      IF c.recover66_active THEN None ELSE @,
                                  !.cycle_loss = 0]
         IN  [c1 EXCEPT !.balance_at_cycle_start = c.new_balance,
                        !.last_spin_was_loss = FALSE]

CoverTail ==
    LET c  == cover
        c1 == IF ~c.periodic_recovery_active THEN c
              ELSE IF c.periodic_recovery_spins_done + 1 >= c.periodic_recovery_max_spins
                   THEN stop_periodic_recovery(c)
                   ELSE [c EXCEPT !.periodic_recovery_spins_done = @ + 1]
        c2 == cover_wrap(c1)
    IN  /\ c.pc = "tail"
        /\ cover' = cover_reset_locals([c2 EXCEPT !.pc = "check"])
        /\ UNCHANGED <<bots, active_bots, hist, calc, mgr>>

\* The bot of the cover variant, its operator and the timer of its manager.
NextCover ==
    \/ CoverStartBot
    \/ CoverTogglePause
    \/ CoverStopBot
    \/ CoverSlResume
    \/ CoverPreamble
    \/ CoverLoopCheck
    \/ CoverPauseWait
    \/ CoverRoundBegin
    \/ CoverError
    \/ CoverWin
    \/ CoverLoss
    \/ CoverCheckRecoveryStopLoss
    \/ CoverCheckGlobalStopLoss
    \/ CoverTail

\* The form is filled in: the global stop-loss is off or on, stop on win is
\* ticked or not.
InitCover ==
    /\ bots = [b \in Bots |-> NewBot(FALSE, FALSE, FALSE)]
    /\ active_bots = <<>>
    /\ hist = [b \in Bots |-> NewHist]
    /\ calc = NoCalc
    /\ MgrIdle
    /\ \E gsl \in {0, GlobalStopLoss}, sow \in BOOLEAN : cover = NewCover(gsl, sow)

SpecCover == InitCover /\ [][NextCover]_vars

\* The same bot with "Recovery max spins" of the form typed in: _parse_int
\* takes any integer, zero included.
InitCoverSpins ==
    /\ bots = [b \in Bots |-> NewBot(FALSE, FALSE, FALSE)]
    /\ active_bots = <<>>
    /\ hist = [b \in Bots |-> NewHist]
    /\ calc = NoCalc
    /\ MgrIdle
    /\ \E gsl \in {0, GlobalStopLoss}, ms \in 0 .. PeriodicRecoveryMaxSpins :
           cover = [NewCover(gsl, FALSE) EXCEPT !.periodic_recovery_max_spins = ms]

SpecCoverSpins == InitCoverSpins /\ [][NextCover]_vars

\* ------------------------------ shared-recovery variant (100-9999_cover%$)
\* The registered bots of the manager.
enrolled(m) == {m.active_bots[i] : i \in 1..Len(m.active_bots)}

\* Position of a registered bot in list(self.active_bots.values()).
position(m, b) == CHOOSE i \in 1..Len(m.active_bots) : m.active_bots[i] = b

\* Python's truth value of an Optional[Decimal].
truthy(x) == x # None /\ x # 0

\* _push_bank_payload as the manager's queue delivers it: initial_bank is
\* filled in on first use and all_banks gets the balance and the high mark.
push_bank_payload(s, bal) ==
    LET s1 == IF s.initial_bank = None THEN [s EXCEPT !.initial_bank = bal] ELSE s
    IN  [s1 EXCEPT !.bank_current = bal,
                   !.bank_last = IF s1.last_successful_bank # None
                                 THEN s1.last_successful_bank ELSE s1.initial_bank]

\* enter_recovery: the shared reference, the divisor and the target are set.
enter_recovery(s, shared_S_ref, divisor) ==
    IF shared_S_ref <= 0 THEN s
    ELSE [s EXCEPT !.recovery_shared_S_ref = shared_S_ref,
                   !.recovery_divisor = Max(1, divisor),
                   !.recovery_target_end = shared_S_ref,
                   !.recovery_payout = RecoveryMinPayout,
                   !.press_active = FALSE, !.press_left = 0,
                   !.press_payout = None,
                   !.recovery_active = TRUE]

\* force_end_recovery, under the manager's lock: every registered bot leaves
\* recovery, its bank is reset to its balance, it is paused and a resume
\* timer is scheduled for it.
force_end_recovery(m) ==
    LET ended(s) ==
            LET s1 == [s EXCEPT !.recovery_active = FALSE,
                                !.recovery_shared_S_ref = None,
                                !.recovery_target_end = None,
                                !.recovery_payout = RecoveryMinPayout,
                                !.current_payout = SharedStartPayout]
                s2 == push_bank_payload(s1, s.balance)
                s3 == IF s.balance > 0
                      THEN [s2 EXCEPT !.initial_bank = s.balance,
                                      !.last_successful_bank = s.balance,
                                      !.bank_current = s.balance,
                                      !.bank_last = s.balance]
                      ELSE s2
            IN  [s3 EXCEPT !.paused = TRUE]
    IN  [m EXCEPT !.bot = [b \in Bots |-> IF b \in enrolled(m)
                                          THEN ended(m.bot[b]) ELSE m.bot[b]],
                  !.recovery_global_active = FALSE,
                  !.resume = m.resume \cup enrolled(m)]

\* _maybe_exit_recovery of bot b with the balance it has just read.
maybe_exit_recovery(m, b, amount) ==
    LET s == m.bot[b]
    IN  IF s.recovery_active /\ s.recovery_target_end # None
           /\ amount >= s.recovery_target_end
        THEN [force_end_recovery(m) EXCEPT !.bot[b].recovery_active = FALSE,
                                           !.bot[b].current_payout = SharedStartPayout]
        ELSE m

\* The recovery stake of start(): the per-win target over payout - 1, raised
\* to the minimum bet, capped by the limit and the balance, then quantized.
shared_recovery_bet(s, R) ==
    LET unit_le_R == RecoveryUsdtPerWin <= R * Max(1, s.recovery_divisor)
        num   == IF unit_le_R THEN RecoveryUsdtPerWin ELSE R
        den   == IF unit_le_R THEN Max(1, s.recovery_divisor) ELSE 1
        denom == IF s.payout - 1 <= 0 THEN 1 ELSE s.payout - 1
    IN  Min(Min(Max(quantize_bet(num, den * denom), SharedMinBet),
                SharedMaxBetLimit),
            s.current_balance)

\* The iteration of bot b ends: the locals of start() are dead until the next
\* iteration assigns them again.
shared_end_iteration(m, b) ==
    [m EXCEPT !.bot[b].current_balance = 0, !.bot[b].mode = "",
              !.bot[b].payout = 0, !.bot[b].bet = 0, !.bot[b].pc = "check"]

RECURSIVE shared_rounds(_)
shared_rounds(S) ==
    IF S = {} THEN 0
    ELSE LET b == CHOOSE x \in S : TRUE
         IN  mgr.bot[b].rounds + shared_rounds(S \ {b})

RECURSIVE sum_current(_, _)
sum_current(m, S) ==
    IF S = {} THEN 0
    ELSE LET b == CHOOSE x \in S : TRUE
         IN  m.bot[b].bank_current + sum_current(m, S \ {b})

\* BotTab.start_bot: the bot's thread is started and the bot is registered.
SharedStartBot(b) ==
    /\ mgr.bot[b].pc = "idle"
    /\ mgr' = [mgr EXCEPT !.bot[b].pc = "start",
                          !.active_bots = Append(@, b)]
    /\ UNCHANGED <<bots, active_bots, hist, calc, cover>>

\* BotTab.toggle_pause while the bot's thread lives.
SharedTogglePause(b) ==
    /\ mgr.bot[b].pc \notin {"idle", "done", "failed"}
    /\ mgr' = [mgr EXCEPT !.bot[b].paused = ~@]
    /\ UNCHANGED <<bots, active_bots, hist, calc, cover>>

\* start() up to its loop.
SharedPreamble(b) ==
    LET s  == mgr.bot[b]
        s1 == push_bank_payload([s EXCEPT !.is_running = TRUE, !.paused = FALSE],
                                s.balance)
        s2 == IF s1.last_successful_bank = None
              THEN [s1 EXCEPT !.last_successful_bank = s1.initial_bank] ELSE s1
    IN  /\ s.pc = "start"
        /\ mgr' = [mgr EXCEPT !.bot[b] = [s2 EXCEPT !.current_balance = s.balance,
                                                    !.pc = "check"]]
        /\ UNCHANGED <<bots, active_bots, hist, calc, cover>>

\* while self.is_running
SharedLoopCheck(b) ==
    LET s == mgr.bot[b]
    IN  /\ s.pc = "check"
        /\ s.is_running =>
              shared_rounds(Bots) < (IF \E o \in Bots : mgr.bot[o].pc = "notab"
                                     THEN MaxSoloRounds ELSE MaxSharedRounds)
        /\ mgr' = [mgr EXCEPT !.bot[b].pc =
                       IF s.is_running THEN "pausewait" ELSE "done"]
        /\ UNCHANGED <<bots, active_bots, hist, calc, cover>>

\* while self.paused and self.is_running: sleep
SharedPauseWait(b) ==
    LET s == mgr.bot[b]
    IN  /\ s.pc = "pausewait"
        /\ ~(s.paused /\ s.is_running)
        /\ mgr' = [mgr EXCEPT !.bot[b].pc = "body"]
        /\ UNCHANGED <<bots, active_bots, hist, calc, cover>>

\* The balance is read and the mode chosen. In recovery the loop goes on to
\* compute R; otherwise the strategy steps its payout and the base wager is
\* placed, unless a press series is armed: then the press wager takes the
\* place of the base wager.
SharedModeCheck(b) ==
    LET s  == mgr.bot[b]
        s1 == [push_bank_payload(s, s.balance) EXCEPT !.current_balance = s.balance]
    IN  /\ s.pc = "body"
        /\ mgr' = [mgr EXCEPT !.bot[b] =
              IF s1.recovery_active /\ truthy(s1.recovery_shared_S_ref)
                 /\ truthy(s1.recovery_target_end)
              THEN [s1 EXCEPT !.mode = "RECOVERY", !.payout = s1.recovery_payout,
                              !.bet = 0, !.pc = "rec_R"]
              ELSE IF s1.press_active /\ s1.press_left > 0 /\ s1.press_payout # None
              THEN [s1 EXCEPT !.mode = "PRESS", !.payout = s1.press_payout,
                              !.bet = SharedPressBet,
                              !.pc = IF SharedPressBet > s1.current_balance
                                     THEN "done" ELSE "inflight"]
              ELSE LET bet == Max(SharedBaseBet, SharedMinBet)
                   IN  [s1 EXCEPT !.mode = "BASE", !.payout = s1.current_payout,
                                  !.current_payout =
                                      IF @ + 1 > SharedMaxPayout
                                      THEN SharedStartPayout ELSE @ + 1,
                                  !.bet = bet,
                                  !.pc = IF bet > s1.current_balance
                                         THEN "done" ELSE "inflight"]]
        /\ UNCHANGED <<bots, active_bots, hist, calc, cover>>

\* R = self.recovery_target_end - current_balance and the recovery wager.
\* Subtracting from None, or multiplying by a None reference, raises
\* TypeError, which nothing in start() catches: the thread ends.
SharedRecoveryTarget(b) ==
    LET s == mgr.bot[b]
        R == s.recovery_target_end - s.current_balance
    IN  /\ s.pc = "rec_R"
        /\ mgr' =
             IF s.recovery_target_end = None
             THEN [mgr EXCEPT !.bot[b].pc = "failed"]
             ELSE IF R <= 0
             THEN shared_end_iteration(maybe_exit_recovery(mgr, b, s.current_balance), b)
             ELSE IF s.recovery_shared_S_ref = None
             THEN [mgr EXCEPT !.bot[b].pc = "failed"]
             ELSE LET bet == shared_recovery_bet(s, R)
                  IN  [mgr EXCEPT !.bot[b].bet = bet,
                                  !.bot[b].pc = IF bet > s.current_balance
                                                THEN "done" ELSE "inflight"]
        /\ UNCHANGED <<bots, active_bots, hist, calc, cover>>

\* The wager gets an error reply: log, sleep(1), continue.
SharedError(b) ==
    /\ mgr.bot[b].pc = "inflight"
    /\ mgr' = shared_end_iteration(mgr, b)
    /\ UNCHANGED <<bots, active_bots, hist, calc, cover>>

\* The wager is won (profit > 0).
SharedWin(b) ==
    LET s  == mgr.bot[b]
        profit == s.bet * (s.payout - 1)
        new_balance == s.balance + profit
        s1 == [s EXCEPT !.balance = new_balance,
                        !.last_successful_bank =
                            IF @ = None \/ new_balance > @ THEN new_balance ELSE @]
        s2 == push_bank_payload(s1, new_balance)
        s3(roll_val) ==
              IF s.mode = "RECOVERY"
              THEN [s2 EXCEPT !.recovery_payout = RecoveryMinPayout]
              ELSE IF s.mode = "PRESS"
              THEN [s2 EXCEPT !.press_active = FALSE, !.press_left = 0,
                              !.press_payout = None]
              ELSE IF s.enable_highroll_99 /\ roll_val >= HighrollThreshold
              THEN [s2 EXCEPT !.press_active = TRUE, !.press_left = PressSpins,
                              !.press_payout = HighrollPressPayout]
              ELSE IF PressBandLow <= s.payout /\ s.payout <= PressBandHigh
                      /\ roll_val >= PressRollThreshold
              THEN [s2 EXCEPT !.press_active = TRUE, !.press_left = PressSpins,
                              !.press_payout = PressPayout]
              ELSE s2
        m1(roll_val) == [mgr EXCEPT !.bot[b] = s3(roll_val)]
        m2(roll_val) ==
              IF s.mode = "RECOVERY"
              THEN maybe_exit_recovery(m1(roll_val), b, new_balance)
              ELSE m1(roll_val)
    IN  /\ s.pc = "inflight"
        /\ profit > 0
        /\ new_balance <= MaxSharedBank
        /\ \E roll_val \in {PressRollThreshold, SharedHighRoll} :
              mgr' = shared_end_iteration(
                         [m2(roll_val) EXCEPT !.bot[b].rounds = @ + 1], b)
        /\ UNCHANGED <<bots, active_bots, hist, calc, cover>>

\* The recovery payout after a lost recovery round if it went on past
\* recovery_max_payout.
next_recovery_payout_unbounded(recovery_payout) == recovery_payout + 1

\* The recovery payout after a lost recovery round: one more, and back to
\* recovery_min_payout once recovery_max_payout has been reached.
next_recovery_payout(recovery_payout) ==
    IF recovery_payout + 1 > RecoveryMaxPayout
       \/ recovery_payout >= RecoveryMaxPayout
    THEN RecoveryMinPayout ELSE recovery_payout + 1

\* The wager is lost; in recovery the payout steps up and wraps.
SharedLoss(b) ==
    LET s  == mgr.bot[b]
        new_balance == s.balance - s.bet
        np == next_recovery_payout(s.recovery_payout)
        s1 == push_bank_payload([s EXCEPT !.balance = new_balance], new_balance)
        s2 == IF s.mode = "RECOVERY" THEN [s1 EXCEPT !.recovery_payout = np]
              ELSE IF s.mode = "PRESS"
              THEN IF s1.press_left - 1 <= 0
                   THEN [s1 EXCEPT !.press_left = @ - 1, !.press_active = FALSE,
                                   !.press_payout = None]
                   ELSE [s1 EXCEPT !.press_left = @ - 1]
              ELSE s1
        m1 == [mgr EXCEPT !.bot[b] = s2]
        m2 == IF s.mode = "RECOVERY" THEN maybe_exit_recovery(m1, b, new_balance)
              ELSE m1
    IN  /\ s.pc = "inflight"
        /\ mgr' = shared_end_iteration([m2 EXCEPT !.bot[b].rounds = @ + 1], b)
        /\ UNCHANGED <<bots, active_bots, hist, calc, cover>>

\* A resume timer of force_end_recovery fires; the timers are staggered in
\* the order of the bots.
SharedResume(b) ==
    /\ b \in mgr.resume
    /\ \A o \in mgr.resume : position(mgr, b) <= position(mgr, o)
    /\ mgr' = [mgr EXCEPT !.bot[b].paused = FALSE, !.resume = @ \ {b}]
    /\ UNCHANGED <<bots, active_bots, hist, calc, cover>>

\* _check_global_recovery on a tick of the manager's queue: the drawdown of
\* the fleet against the shared reference starts the recovery of every bot;
\* with no bot left in recovery the global flag is dropped.
SharedCheckGlobalRecovery ==
    LET reg == enrolled(mgr)
        N   == Len(mgr.active_bots)
        refs == {mgr.bot[b].bank_last : b \in reg} \cup {0}
        shared_S_ref == CHOOSE x \in refs : \A y \in refs : y <= x
        deficit_abs == shared_S_ref * N - sum_current(mgr, reg)
    IN  /\ N > 0
        /\ shared_S_ref > 0
        /\ \/ /\ ~mgr.recovery_global_active
              /\ RecoveryDdUsdt > 0 /\ deficit_abs >= RecoveryDdUsdt
              /\ mgr' = [mgr EXCEPT
                    !.recovery_global_active = TRUE,
                    !.bot = [b \in Bots |->
                               IF b \in reg
                               THEN enter_recovery(mgr.bot[b], shared_S_ref, N)
                               ELSE mgr.bot[b]]]
           \/ /\ mgr.recovery_global_active
              /\ \A b \in reg : ~mgr.bot[b].recovery_active
              /\ mgr' = [mgr EXCEPT !.recovery_global_active = FALSE]
        /\ UNCHANGED <<bots, active_bots, hist, calc, cover>>

\* The fleet of the shared-recovery variant, its operator and its manager.
NextShared ==
    \/ \E b \in Bots :
          \/ SharedStartBot(b)
          \/ SharedTogglePause(b)
          \/ SharedPreamble(b)
          \/ SharedLoopCheck(b)
          \/ SharedPauseWait(b)
          \/ SharedModeCheck(b)
          \/ SharedRecoveryTarget(b)
          \/ SharedError(b)
          \/ SharedWin(b)
          \/ SharedLoss(b)
          \/ SharedResume(b)
    \/ SharedCheckGlobalRecovery

InitShared ==
    /\ bots = [b \in Bots |-> NewBot(FALSE, FALSE, FALSE)]
    /\ active_bots = <<>>
    /\ hist = [b \in Bots |-> NewHist]
    /\ calc = NoCalc
    /\ CoverIdle
    /\ MgrIdle

SpecShared == InitShared /\ [][NextShared]_vars

\* ------------------------------------------- the covering stake functions
\* Largest target profit and bank the covering stake is computed for.
MaxSizeTarget == 6
MaxSizeBank == 8

\* The payouts (in hundredths: 1.00, 1.01, 2, 3), a large target profit, the
\* minimum bets and the bet limits the functions are called with.
SizePayoutScale == 100
SizePayouts == {100, 101, 200, 300}
SizeBigTarget == 1000
SizeMinBets == {1, 2, 6}
SizeMaxBetLimits == {3, 5}
SizeBigBank == 20

\* A call of compute_bet_for_target_profit or compute_covering_bet_for_target.
InitSize ==
    /\ bots = [b \in Bots |-> NewBot(FALSE, FALSE, FALSE)]
    /\ active_bots = <<>>
    /\ hist = [b \in Bots |-> NewHist]
    /\ \E f \in {"compute_bet_for_target_profit", "compute_covering_bet_for_target",
                 "compute_covering_bet_for_target_cover"},
          p \in SizePayouts, t \in (0..MaxSizeTarget) \cup {SizeBigTarget},
          m \in SizeMinBets, x \in SizeMaxBetLimits,
          cb \in (0..MaxSizeBank) \cup {SizeBigBank} :
          calc = [fn |-> f,
                  args |-> [payout |-> p, target_profit |-> t, min_bet |-> m,
                            max_bet_limit |-> x, current_bank |-> cb],
                  out |-> None]
    /\ CoverIdle
    /\ MgrIdle

\* compute_bet_for_target_profit returns.
CallComputeBetForTargetProfit ==
    /\ calc.fn = "compute_bet_for_target_profit" /\ calc.out = None
    /\ calc' = [calc EXCEPT !.out =
                  compute_bet_for_target_profit(calc.args.payout, SizePayoutScale,
                      calc.args.target_profit, 1, calc.args.min_bet,
                      calc.args.max_bet_limit, calc.args.current_bank)]
    /\ UNCHANGED <<bots, active_bots, hist, cover, mgr>>

\* compute_covering_bet_for_target returns.
CallComputeCoveringBet ==
    /\ calc.fn = "compute_covering_bet_for_target" /\ calc.out = None
    /\ calc' = [calc EXCEPT !.out =
                  compute_covering_bet_for_target(calc.args.payout, SizePayoutScale,
                      calc.args.target_profit, 1, calc.args.min_bet,
                      calc.args.max_bet_limit, calc.args.current_bank)]
    /\ UNCHANGED <<bots, active_bots, hist, cover, mgr>>

\* compute_covering_bet_for_target of cover_Version2_Version9 returns.
CallComputeCoveringBetCover ==
    /\ calc.fn = "compute_covering_bet_for_target_cover" /\ calc.out = None
    /\ calc' = [calc EXCEPT !.out =
                  compute_covering_bet_for_target_cover(calc.args.payout, SizePayoutScale,
                      calc.args.target_profit, 1, calc.args.min_bet,
                      calc.args.max_bet_limit, calc.args.current_bank)]
    /\ UNCHANGED <<bots, active_bots, hist, cover, mgr>>

NextSize ==
    \/ CallComputeBetForTargetProfit
    \/ CallComputeCoveringBet
    \/ CallComputeCoveringBetCover

SpecSize == InitSize /\ [][NextSize]_vars

\* ------------------------------ shared-recovery variant on a small account
\* The balance of an account that two lost BASE rounds empty.
SharedLowBalance == 2

InitSharedLow ==
    /\ bots = [b \in Bots |-> NewBot(FALSE, FALSE, FALSE)]
    /\ active_bots = <<>>
    /\ hist = [b \in Bots |-> NewHist]
    /\ calc = NoCalc
    /\ CoverIdle
    /\ mgr = [NewMgr EXCEPT !.bot =
                 [b \in Bots |-> [NewShared EXCEPT !.balance = SharedLowBalance]]]

SpecSharedLow == InitSharedLow /\ [][NextShared]_vars

\* ------------------- shared-recovery variant with "highroll 99" ticked
\* The fleet left to itself: nobody touches the pause button.
NextSharedAuto ==
    \/ \E b \in Bots :
          \/ SharedStartBot(b)
          \/ SharedPreamble(b)
          \/ SharedLoopCheck(b)
          \/ SharedPauseWait(b)
          \/ SharedModeCheck(b)
          \/ SharedRecoveryTarget(b)
          \/ SharedError(b)
          \/ SharedWin(b)
          \/ SharedLoss(b)
          \/ SharedResume(b)
    \/ SharedCheckGlobalRecovery

InitSharedPress ==
    /\ bots = [b \in Bots |-> NewBot(FALSE, FALSE, FALSE)]
    /\ active_bots = <<>>
    /\ hist = [b \in Bots |-> NewHist]
    /\ calc = NoCalc
    /\ CoverIdle
    /\ mgr = [NewMgr EXCEPT !.bot =
                 [b \in Bots |-> [NewShared EXCEPT !.enable_highroll_99 = TRUE]]]

SpecSharedPress == InitSharedPress /\ [][NextSharedAuto]_vars

\* ------------------ global take-profit (cover_Version11_Version13 manager)
\* Largest bank of a bot and number of rounds followed.
MaxTpBank == 4
MaxTpRounds == 3

\* The bank each bot starts with and the take-profit threshold in percent.
TpInitialBalance == 2
TpPercent == 50

\* The manager and its bots once both loops run and their first bank payloads
\* are in all_banks.  Thread 0 is the UI thread, which polls the queue.
NewTpMgr ==
    [pc |-> [t \in Bots \cup {0} |-> IF t = 0 THEN "poll" ELSE "round"],
     paused |-> [b \in Bots |-> FALSE],
     balance |-> [b \in Bots |-> TpInitialBalance],
     initial_bank |-> [b \in Bots |-> TpInitialBalance],
     queue |-> [b \in Bots |-> <<>>],
     all_banks |-> [b \in Bots |-> [current_bank |-> TpInitialBalance,
                                    initial_bank |-> TpInitialBalance]],
     global_tp_active |-> FALSE,
     tp_new_initials |-> [b \in Bots |-> None],
     timers |-> 0,
     rounds |-> 0]

\* A round of bot b's loop up to its call of check_global_take_profit: the
\* wager is won or lost and _bank queues the payload for the UI thread.
TpRound(b) ==
    /\ mgr.pc[b] = "round"
    /\ ~mgr.paused[b]
    /\ mgr.rounds < MaxTpRounds
    /\ \E new_balance \in {mgr.balance[b] - 1, mgr.balance[b] + 1} :
          /\ new_balance \in 0..MaxTpBank
          /\ mgr' = [mgr EXCEPT
                !.balance[b] = new_balance,
                !.queue[b] = <<[current_bank |-> new_balance,
                                initial_bank |-> mgr.initial_bank[b]]>>,
                !.rounds = @ + 1,
                !.pc[b] = "tp_check"]
    /\ UNCHANGED <<bots, active_bots, hist, calc, cover>>

\* _process_ui_queue: the 'bank' payloads are stored in all_banks, then the
\* UI thread calls check_global_take_profit.
ProcessUiQueue ==
    /\ mgr.pc[0] = "poll"
    /\ \E b \in Bots : mgr.queue[b] # <<>>
    /\ mgr' = [mgr EXCEPT
          !.all_banks = [b \in Bots |->
              IF mgr.queue[b] = <<>> THEN mgr.all_banks[b]
              ELSE LET curr == mgr.queue[b][1].current_bank
                       init == mgr.queue[b][1].initial_bank
                   IN  [current_bank |-> curr,
                        initial_bank |-> IF init <= 0 THEN curr ELSE init]],
          !.queue = [b \in Bots |-> <<>>],
          !.pc[0] = "tp_check"]
    /\ UNCHANGED <<bots, active_bots, hist, calc, cover>>

\* check_global_take_profit on thread t, up to its call of _trigger_global_tp:
\* the totals are read under the lock, global_tp_active is read without it.
CheckGlobalTakeProfit(t) ==
    LET init_of(b) == IF mgr.all_banks[b].initial_bank <= 0
                      THEN mgr.all_banks[b].current_bank
                      ELSE mgr.all_banks[b].initial_bank
        total_initial == init_of(1) + init_of(2)
        total_current == mgr.all_banks[1].current_bank + mgr.all_banks[2].current_bank
        reached == /\ total_initial > 0
                   /\ total_current * 100 >= total_initial * (100 + TpPercent)
    IN  /\ mgr.pc[t] = "tp_check"
        /\ mgr' = [mgr EXCEPT !.pc[t] =
                      IF reached /\ ~mgr.global_tp_active THEN "tp_trigger"
                      ELSE IF t = 0 THEN "poll" ELSE "round"]
        /\ UNCHANGED <<bots, active_bots, hist, calc, cover>>

\* _trigger_global_tp on thread t: the flag is set, the banks are noted, every
\* bot is paused and _resume_after_tp is scheduled.
TriggerGlobalTp(t) ==
    /\ mgr.pc[t] = "tp_trigger"
    /\ mgr' = [mgr EXCEPT
          !.global_tp_active = TRUE,
          !.tp_new_initials = [b \in Bots |-> mgr.all_banks[b].current_bank],
          !.paused = [b \in Bots |-> TRUE],
          !.timers = @ + 1,
          !.pc[t] = IF t = 0 THEN "poll" ELSE "round"]
    /\ UNCHANGED <<bots, active_bots, hist, calc, cover>>

\* _resume_after_tp, a timer callback of the UI thread: every bot is rebased
\* to its noted bank and resumed, the flag is cleared.
ResumeAfterTp ==
    LET new_initial(b) ==
            IF mgr.tp_new_initials[b] = None \/ mgr.tp_new_initials[b] <= 0
            THEN mgr.all_banks[b].current_bank
            ELSE mgr.tp_new_initials[b]
    IN  /\ mgr.timers > 0
        /\ mgr.pc[0] = "poll"
        /\ mgr' = [mgr EXCEPT
              !.all_banks = [b \in Bots |-> [current_bank |-> new_initial(b),
                                             initial_bank |-> new_initial(b)]],
              !.initial_bank = [b \in Bots |-> new_initial(b)],
              !.paused = [b \in Bots |-> FALSE],
              !.global_tp_active = FALSE,
              !.tp_new_initials = [b \in Bots |-> None],
              !.timers = @ - 1]
        /\ UNCHANGED <<bots, active_bots, hist, calc, cover>>

NextTp ==
    \/ \E b \in Bots : TpRound(b)
    \/ ProcessUiQueue
    \/ \E t \in Bots \cup {0} : CheckGlobalTakeProfit(t)
    \/ \E t \in Bots \cup {0} : TriggerGlobalTp(t)
    \/ ResumeAfterTp

InitTp ==
    /\ bots = [b \in Bots |-> NewBot(FALSE, FALSE, FALSE)]
    /\ active_bots = <<>>
    /\ hist = [b \in Bots |-> NewHist]
    /\ calc = NoCalc
    /\ CoverIdle
    /\ mgr = NewTpMgr

SpecTp == InitTp /\ [][NextTp]_vars

\* ---------------------------- shared-recovery variant, one bot on its own
\* One tab with a bot; the other tab is never filled in.
InitSharedSolo ==
    /\ bots = [b \in Bots |-> NewBot(FALSE, FALSE, FALSE)]
    /\ active_bots = <<>>
    /\ hist = [b \in Bots |-> NewHist]
    /\ calc = NoCalc
    /\ CoverIdle
    /\ mgr = [NewMgr EXCEPT !.bot[2].pc = "notab"]

SpecSharedSolo == InitSharedSolo /\ [][NextSharedAuto]_vars

\* --------------------------------- the payout scanner and the recovery ladder
\* Number of next_payout_and_bet calls followed, widest scan range, and the
\* largest payout bound the ladder is built for.
MaxScanCalls == 7
MaxScanSpan == 5
MaxLadderPayout == 6

\* The start payouts of the scanner and the steps of the ladder.
ScanStarts == {2, 100}
LadderSteps == {-2, -1, 0, 1, 2}

\* The bounds _gen_recovery_Ms clamps to, and its fallback ladder.
LadderClampMin == 2
LadderClampMax == 20000
LadderDefault == 50

\* LinearPayoutStrategy.next_payout_and_bet: <<payout, wrapped, current_payout'>>.
\* Version36 returns the constant False as its fourth element; Version36_Version10
\* sets wrapped on the call whose successor exceeds max_payout.
next_payout_and_bet(variant, start_payout, max_payout, current_payout) ==
    LET payout == current_payout
        over == payout + 1 > max_payout
        nxt == IF over THEN start_payout ELSE payout + 1
        wrapped == IF variant = "Version36_Version10" THEN over ELSE FALSE
    IN  <<payout, wrapped, nxt>>

\* "while cur >= mn: Ms.append(cur); cur = cur - st_abs".
RECURSIVE ladder_down(_, _, _)
ladder_down(cur, mn, st_abs) ==
    IF cur >= mn THEN <<cur>> \o ladder_down(cur - st_abs, mn, st_abs) ELSE <<>>

\* "while cur <= mx: Ms.append(cur); cur = cur + st_abs".
RECURSIVE ladder_up(_, _, _)
ladder_up(cur, mx, st_abs) ==
    IF cur <= mx THEN <<cur>> \o ladder_up(cur + st_abs, mx, st_abs) ELSE <<>>

\* _gen_recovery_Ms of Version36_Version13: the lower bound is clamped, the
\* upper bound is clamped, and only then are the two swapped.
gen_recovery_Ms_cfg(desc, min_payout, max_payout, step) ==
    LET mn0 == IF min_payout < LadderClampMin THEN LadderClampMin ELSE min_payout
        mx0 == IF max_payout > LadderClampMax THEN LadderClampMax ELSE max_payout
        mn == IF mx0 < mn0 THEN mx0 ELSE mn0
        mx == IF mx0 < mn0 THEN mn0 ELSE mx0
        st == IF step < 0 THEN -step ELSE step
        st_abs == IF st <= 0 THEN 1 ELSE st
        Ms == IF desc THEN ladder_down(mx, mn, st_abs) ELSE ladder_up(mn, mx, st_abs)
    IN  IF Ms = <<>> THEN <<LadderDefault>> ELSE Ms

\* A freshly constructed scanner, or a pending call of _gen_recovery_Ms.
InitScan ==
    /\ bots = [b \in Bots |-> NewBot(FALSE, FALSE, FALSE)]
    /\ active_bots = <<>>
    /\ hist = [b \in Bots |-> NewHist]
    /\ \/ \E v \in {"Version36", "Version36_Version10"}, s \in ScanStarts,
             d \in 1..MaxScanSpan :
             calc = [fn |-> "next_payout_and_bet",
                     args |-> [variant |-> v, start_payout |-> s,
                               max_payout |-> s + d],
                     current_payout |-> s,
                     out |-> <<>>]
       \/ \E desc \in BOOLEAN, mn \in 0..MaxLadderPayout, mx \in 0..MaxLadderPayout,
             st \in LadderSteps :
             calc = [fn |-> "_gen_recovery_Ms",
                     args |-> [desc |-> desc, min_payout |-> mn,
                               max_payout |-> mx, step |-> st],
                     returned |-> FALSE,
                     out |-> <<>>]
    /\ CoverIdle
    /\ MgrIdle

\* One call of next_payout_and_bet; out collects <<payout, wrapped>> per call.
NextPayoutAndBet ==
    /\ calc.fn = "next_payout_and_bet" /\ Len(calc.out) < MaxScanCalls
    /\ LET r == next_payout_and_bet(calc.args.variant, calc.args.start_payout,
                                    calc.args.max_payout, calc.current_payout)
       IN  calc' = [calc EXCEPT !.out = Append(@, <<r[1], r[2]>>),
                                !.current_payout = r[3]]
    /\ UNCHANGED <<bots, active_bots, hist, cover, mgr>>

\* _gen_recovery_Ms returns.
CallGenRecoveryMs ==
    /\ calc.fn = "_gen_recovery_Ms" /\ ~calc.returned
    /\ calc' = [calc EXCEPT !.returned = TRUE, !.out =
                  gen_recovery_Ms_cfg(calc.args.desc, calc.args.min_payout,
                                      calc.args.max_payout, calc.args.step)]
    /\ UNCHANGED <<bots, active_bots, hist, cover, mgr>>

NextScan ==
    \/ NextPayoutAndBet
    \/ CallGenRecoveryMs

SpecScan == InitScan /\ [][NextScan]_vars

\* ------------------------------------------------------------ quantize_bet
\* Largest numerator (in magnitude) and denominator of the amounts quantized,
\* and the largest whole number of quanta Decimal.quantize accepts: above it
\* the context precision is exceeded and InvalidOperation is raised.
MaxQuantNum == 24
MaxQuantDen == 3
MaxQuantizable == 10

\* quantize_bet as it is called: the amount x = <<num, den>> comes back as a
\* whole number of quanta, or unchanged when Decimal.quantize raises.
quantize_bet_call(x) ==
    LET whole == quantize_bet(x[1], x[2])
    IN  IF whole > MaxQuantizable \/ whole < -MaxQuantizable
        THEN x
        ELSE <<whole, 1>>

\* An amount about to be quantized.
InitQuant ==
    /\ bots = [b \in Bots |-> NewBot(FALSE, FALSE, FALSE)]
    /\ active_bots = <<>>
    /\ hist = [b \in Bots |-> NewHist]
    /\ \E n \in (-MaxQuantNum)..MaxQuantNum, d \in 1..MaxQuantDen :
          calc = [fn |-> "quantize_bet", args |-> [bet |-> <<n, d>>],
                  calls |-> 0, out |-> <<n, d>>, first |-> <<n, d>>]
    /\ CoverIdle
    /\ MgrIdle

\* quantize_bet(bet) returns.
CallQuantizeBet ==
    /\ calc.fn = "quantize_bet" /\ calc.calls = 0
    /\ calc' = [calc EXCEPT !.calls = 1,
                            !.out = quantize_bet_call(calc.args.bet),
                            !.first = quantize_bet_call(calc.args.bet)]
    /\ UNCHANGED <<bots, active_bots, hist, cover, mgr>>

\* quantize_bet is applied to its own result.
CallQuantizeBetAgain ==
    /\ calc.fn = "quantize_bet" /\ calc.calls = 1
    /\ calc' = [calc EXCEPT !.calls = 2, !.out = quantize_bet_call(calc.out)]
    /\ UNCHANGED <<bots, active_bots, hist, cover, mgr>>

NextQuant ==
    \/ CallQuantizeBet
    \/ CallQuantizeBetAgain

SpecQuant == InitQuant /\ [][NextQuant]_vars

\* ------------------------------------------------------------- properties
\* Bot b's thread writes bot o's last_successful_bank in this step.
BroadcastWrite(b, o) ==
    /\ bots[b].pc = "sync_write"
    /\ bots[b].k <= Len(bots[b].bots_seq)
    /\ bots[b].bots_seq[bots[b].k] = o
    /\ bots'[b].pc # "sync_write" \/ bots'[b].k # bots[b].k

\* Bot b's thread finishes its broadcast in this step.
SyncCompletes(b) ==
    /\ bots[b].pc = "sync_write"
    /\ bots'[b].pc # "sync_write"

\* Bot b's thread hands a main wager / a PRESS wager to the executor.
MainPlaced(b) == bots[b].pc = "body" /\ bots'[b].pc = "inflight"
PressPlaced(b) == bots[b].pc = "press" /\ bots'[b].pc = "press_inflight"

\* The shared reference bank: the largest high-water mark of the registered bots.
reference_bank == max_hwm(None)

\* C1: with several bots running, "compute the global maximum, then broadcast
\* it" acts as one critical section: no broadcast write of one bot ever
\* replaces the high-water mark of another bot by a smaller, stale value.
C1_BroadcastIsCriticalSection ==
    [][\A b \in Bots : \A o \in Bots \ {b} :
          BroadcastWrite(b, o) =>
             bots'[o].last_successful_bank >= bots[o].last_successful_bank]_vars

\* C2: the high-water mark of every bot never decreases: no step of any bot
\* (a round outcome, a broadcast, the end of a recovery) leaves
\* last_successful_bank lower than it was.
C2_HwmMonotone ==
    [][\A b \in Bots :
          bots[b].last_successful_bank # None =>
             bots'[b].last_successful_bank >= bots[b].last_successful_bank]_vars

\* C3: once the bank of some bot has reached the shared reference bank,
\* recovery is over in every bot: a bot that was in recovery when another bot
\* reached the reference places no further recovery round while the reference
\* is still the one that was reached.
C3_RecoveryEndsEverywhere ==
    [][\A b \in Bots :
          (MainPlaced(b) /\ bots'[b].mode \in RecoveryModes)
             => hist[b].outlived = None \/ hist[b].outlived # reference_bank]_vars

\* C5: when a bot's synchronisation completes, every bot that was registered
\* when it began holds a high-water mark that is at least the maximum of the
\* high-water marks and the new bank at that moment (the very maximum, unless
\* the bot has won more since).
C5_SyncEqualisesHwm ==
    [][\A b \in Bots :
          SyncCompletes(b) =>
             \A o \in hist[b].sync_live :
                bots'[o].last_successful_bank >= hist[b].sync_before]_vars

\* C4: a won recovery round with new_balance >= the reference bank ends the
\* recovery: the loss accumulators are 0, the payout scanner is back at its
\* start, and the next main wager is a BASE wager.
C4_RecoveryEndResetsToBase ==
    [][\A b \in Bots :
          /\ (bots[b].pc = "post_recovery" /\ bots[b].recovery_active
                /\ ~bots'[b].recovery_active)
               => /\ bots'[b].loss_sum = 0
                  /\ bots'[b].recovery_losses_so_far = 0
                  /\ bots'[b].current_payout = StartPayout
          /\ (hist[b].ended_by_win /\ MainPlaced(b))
               => bots'[b].mode = "BASE"]_vars

\* C6: an error reply of the executor leaves the state as it was before the
\* round began: when the error has been handled the scanner position and the
\* stored roll are those of the round's beginning (so that the retried round
\* uses the same multiplier).
C6_ErrorMutatesNothing ==
    \A b \in Bots :
       hist[b].errored =>
          /\ bots[b].current_payout = hist[b].round_payout
          /\ bots[b].recovery_last_roll = hist[b].round_roll

\* C7: the loop leaves for lack of funds only when the bank is below the
\* enforced minimum stake; a stake above a bank that still covers the minimum
\* is clamped to the bank and placed.
C7_ClampToBank ==
    \A b \in Bots :
       hist[b].exit \in {"funds", "recovery_funds"} =>
          bots[b].current_balance < MinBetEnforced

C9_NoWagerWhilePaused ==
    [][\A b \in Bots :
          (MainPlaced(b) \/ PressPlaced(b)) => ~bots[b].paused]_vars

\* C10: cancellation is cooperative: after stop() found the loop waiting in
\* its pause loop with the pause flag set, or with a wager in flight, the
\* loop places no further wager.
C10_CooperativeStop ==
    \A b \in Bots :
       hist[b].stop_at \in {"pausewait", "inflight", "press_inflight"} =>
          hist[b].after_stop = 0

\* ----------------------------------------------------------------- C12
\* The step arms a press series of bot b (_activate_press ran).
Armed(b) ==
    /\ bots'[b].press_active /\ bots'[b].press_left = PressSpins
    /\ bots'[b].press_run = 0
    /\ ~(bots[b].press_active /\ bots[b].press_left = PressSpins
         /\ bots[b].press_run = 0)

\* The loop is between the reply to a won PRESS wager and the statements that
\* end the series (the synchronisation of the high-water mark runs first).
settling_press(r) ==
    r.wager = "PRESS" /\ r.pc \in {"sync_read", "sync_write", "post_press"}

in_press_band(r) ==
    /\ r.payout # None /\ PressBandLow <= r.payout /\ r.payout <= PressBandHigh
    /\ r.roll_val # None /\ r.roll_val >= PressRollThreshold

\* C13: a press series is armed only at the end of an iteration whose main
\* wager was won, at a payout in the band and a roll over the threshold; an
\* iteration whose main wager was lost arms none.
C13_PressOnlyAfterWin ==
    [][\A b \in Bots : Armed(b) => (bots[b].win /\ in_press_band(bots[b]))]_vars

\* ----------------------------------------------------------------- C14
\* C14: the main wager placed after a RECOVERY-TRIGGER wager is never another
\* RECOVERY-TRIGGER wager.
C14_TriggerReverts ==
    [][\A b \in Bots :
          (MainPlaced(b) /\ bots'[b].mode = "RECOVERY-TRIGGER")
              => hist[b].last_mode # "RECOVERY-TRIGGER"]_vars

\* ----------------------------------------------------------------- C15
\* The step settles a lost main wager of bot b.
MainLost(b) ==
    /\ bots[b].pc = "inflight"
    /\ bots'[b].balance < bots[b].balance

\* C15: recovery_i always addresses a rung of the ladder; a lost RECOVERY
\* round moves it to the next rung, or, from the last rung, reverses the
\* direction and starts at the first rung of the reversed ladder; the recovery
\* stays active either way.
C15_LadderPingPong ==
    /\ [](\A b \in Bots :
            /\ 0 <= bots[b].recovery_i
            /\ bots[b].recovery_i
                  < Len(gen_recovery_Ms(bots[b].recovery_direction_desc)))
    /\ [][\A b \in Bots :
            (MainLost(b) /\ bots[b].recovery_active /\ bots[b].mode = "RECOVERY")
            => LET r == bots[b]
                   n == Len(gen_recovery_Ms(r.recovery_direction_desc))
               IN  /\ bots'[b].recovery_active
                   /\ IF r.recovery_i + 1 < n
                      THEN /\ bots'[b].recovery_i = r.recovery_i + 1
                           /\ bots'[b].recovery_direction_desc = r.recovery_direction_desc
                      ELSE /\ bots'[b].recovery_i = 0
                           /\ bots'[b].recovery_direction_desc = ~r.recovery_direction_desc]_vars

\* A recovery that ran off the descending ladder and goes on ascending.
C15_Witness ==
    \E b \in Bots :
        /\ bots[b].recovery_active /\ ~bots[b].recovery_direction_desc
        /\ bots[b].recovery_i = 0 /\ bots[b].pc = "inflight"
        /\ bots[b].mode = "RECOVERY"

\* ----------------------------------------------------------------- C16
\* _compute_recovery_bet has returned.
recovery_bet_sized == calc.fn = "compute_recovery_bet" /\ calc.out # None

\* C16 as stated: the recovery stake never exceeds RecoveryCapPct percent of
\* the current bank.
C16_NeverAboveCap ==
    recovery_bet_sized =>
        calc.out * 100 <= calc.args.current_balance * RecoveryCapPct

\* C16: the recovery stake never exceeds the larger of RecoveryCapPct percent
\* of the current bank and the effective minimum stake.
C16_CapOrMinimum ==
    recovery_bet_sized =>
        \/ calc.out * 100 <= calc.args.current_balance * RecoveryCapPct
        \/ calc.out <= calc.args.min_bet_eff

\* The cap binds: the target asks for more than the cap, the cap is above the
\* minimum stake, and the stake is the cap.
C16_Witness ==
    /\ recovery_bet_sized
    /\ calc.args.payout > 1
    /\ calc.out > calc.args.min_bet_eff
    /\ calc.out < MaxBetLimit
    /\ quantize_bet(calc.args.target_T, calc.args.payout - 1) > calc.out
    /\ calc.out = quantize_bet(calc.args.current_balance * RecoveryCapPct, 100)

\* ----------------------------------------------------------------- C17
\* The step places a wager of the cover bot; the step settles one as won.
CoverPlaced == cover.pc = "body" /\ cover'.pc = "inflight"
CoverWon == cover.pc = "inflight" /\ cover'.pc = "sl_check" /\ cover'.win

\* The step is _check_recovery_stop_loss finding the stop-loss reached.
StopLossExit ==
    /\ cover.pc = "sl_check" /\ cover'.pc = "gsl_check"
    /\ cover.periodic_recovery_active
    /\ cover.loss_total >= RecoveryStopLoss

\* The wager being placed is one of the base strategy.
base_wager(c) == ~c.in_periodic /\ ~c.in_recover66

\* C17: when _check_recovery_stop_loss finds loss_total at the stop-loss
\* during a periodic recovery, the recovery is over at once, loss_total keeps
\* its value, and the next wager placed is a wager of the base strategy.
C17_StopLossExit ==
    [][/\ StopLossExit =>
             /\ ~cover'.periodic_recovery_active
             /\ cover'.loss_total = cover.loss_total
       /\ (CoverPlaced /\ cover.after_sl) => base_wager(cover')]_vars

\* A base wager in flight after the stop-loss exit, loss_total kept.
C17_Witness ==
    /\ cover.pc = "inflight" /\ base_wager(cover)
    /\ cover.base_post_sl_lock
    /\ cover.loss_total >= RecoveryStopLoss

\* ----------------------------------------------------------------- C18
\* C18: base_post_sl_lock, once set, stays set through every wager that is
\* not won, and the next won wager clears it.
C18_ReducedCoverUntilWin ==
    [][/\ (cover.base_post_sl_lock /\ ~cover'.base_post_sl_lock) => CoverWon
       /\ (cover.base_post_sl_lock /\ CoverWon) => ~cover'.base_post_sl_lock]_vars

\* ----------------------------------------------------------------- C19
\* C19: while the resume of the global stop-loss is pending (the cooldown
\* has not elapsed) no wager is placed.
C19_NoWagerInCooldown ==
    [][CoverPlaced => ~cover.sl_timer]_vars

\* ----------------------------------------------------------------- C20
\* C20: the first wager placed after the cooldown of the global stop-loss is
\* a wager of the base strategy.
C20_BaseAfterCooldown ==
    [][(CoverPlaced /\ cover.after_cooldown) => base_wager(cover')]_vars

\* C11: pause, resume, restart and force_end_recovery may be invoked while a
\* bot's loop is running without corrupting its in-flight state: under every
\* interleaving no bot's loop fails. (Violated: force_end_recovery, run by the
\* thread of the bot that reached the target, clears recovery_target_end of
\* another bot between that bot's test of it and its subtraction from it.)
C11_LoopNeverFails ==
    \A b \in Bots : mgr.bot[b].pc # "failed"

\* The drawdown of bot b from its high-water mark (or initial bank) is beyond
\* the automatic threshold the operator configured with the recovery box ticked.
drawdown_beyond(b) ==
    LET r == bots[b]
        baseline == Max(IF r.last_successful_bank # None
                        THEN r.last_successful_bank ELSE 0,
                        IF r.initial_bank # None THEN r.initial_bank ELSE 0)
    IN  /\ r.recovery_enabled_var
        /\ RecoveryAutoThreshold > 0
        /\ baseline > 0
        /\ r.balance < baseline - RecoveryAutoThreshold

\* C21: each time the engine is in BASE and the drawdown from the high-water
\* mark exceeds the configured threshold, it transitions to RECOVERY: a main
\* wager placed in that situation is never a BASE wager, on every occurrence.
\* (Violated: the end of a recovery clears recovery_enabled, which the
\* automatic start tests, so a later drawdown starts nothing.)
C21_EveryDrawdownStartsRecovery ==
    [][\A b \in Bots : (MainPlaced(b) /\ drawdown_beyond(b))
                          => bots'[b].mode # "BASE"]_vars

\* The configured count of consecutive lost BASE rounds has been reached and
\* the next wager of the cover variant is being placed.
count_reached_placed ==
    /\ cover.pc = "body" /\ cover'.pc = "inflight"
    /\ BaseToRecoveryAfterSpins > 0
    /\ cover.consecutive_losses_in_base >= BaseToRecoveryAfterSpins

\* C22 as stated: whenever the configured count of consecutive BASE losses is
\* reached, the round after it is a RECOVERY round. (Violated: after a recovery
\* stop-loss BASE is locked until its next win, and a post-cycle 66% mode
\* takes precedence; neither starts a recovery.)
C22_CountStartsRecovery ==
    [][count_reached_placed => cover'.in_periodic]_vars

\* C22, amended: whenever the count is reached while BASE is not locked by a
\* recovery stop-loss and no 66% mode is active, the next round placed is a
\* RECOVERY round, and the count starts again from zero.
C22_CountStartsRecoveryUnlessLocked ==
    [][(count_reached_placed /\ ~cover.base_post_sl_lock /\ ~cover.recover66_active)
          => (cover'.in_periodic /\ cover'.consecutive_losses_in_base = 0)]_vars

\* A recovery round placed right after the lost BASE round that filled the count.
C22_Witness ==
    /\ cover.pc = "inflight" /\ cover.in_periodic
    /\ cover.periodic_recovery_spins_done = 0
    /\ cover.last_spin_was_loss
    /\ cover.rounds >= BaseToRecoveryAfterSpins
    /\ cover.consecutive_losses_in_base = 0
    /\ ~cover.base_post_sl_lock

\* The loop of bot b of the shared-recovery variant takes a step.
shared_loop_step(b) == mgr'.bot[b].pc # mgr.bot[b].pc

\* C23: the only state one instance may change in another is the global
\* high-water mark: a round executed by one bot never modifies another bot's
\* mode, pause flag, scanner position or initial_bank. (Violated: the round
\* that reaches the shared target runs force_end_recovery, which ends the
\* recovery of every other bot, pauses it, resets its scanner and rewrites its
\* initial_bank.)
C23_RoundTouchesOnlyHwm ==
    [][\A b \in Bots : \A o \in Bots \ {b} :
          shared_loop_step(b) =>
             /\ mgr'.bot[o].recovery_active = mgr.bot[o].recovery_active
             /\ mgr'.bot[o].paused = mgr.bot[o].paused
             /\ mgr'.bot[o].current_payout = mgr.bot[o].current_payout
             /\ mgr'.bot[o].initial_bank = mgr.bot[o].initial_bank]_vars

\* C24: initial_bank is captured at engine start and never changes afterwards
\* (the fleet is never restarted here): no round outcome, recovery start or
\* recovery end changes it. (Violated: the end of the shared recovery
\* overwrites initial_bank of every bot with its current balance.)
C24_InitialBankImmutable ==
    [][\A b \in Bots : mgr.bot[b].initial_bank # None
          => mgr'.bot[b].initial_bank = mgr.bot[b].initial_bank]_vars

\* C25: a settled wager whose new bank exceeds the high-water mark sets the
\* mark to the new bank at once, so that the mark is at least the bank before
\* the next round begins.
C25_HwmCoversBank ==
    \A b \in Bots :
        bots[b].pc \in {"check", "pausewait", "body"}
           => hwm_or_initial(bots[b]) >= bots[b].balance

\* ----------------------------------------------------------- C26..C28
\* A covering stake function has returned.
stake_sized == calc.fn \in {"compute_bet_for_target_profit",
                            "compute_covering_bet_for_target"} /\ calc.out # None

\* The multiplier of the call is degenerate: payout - 1 <= 0.
degenerate == calc.args.payout - SizePayoutScale <= 0

\* target_profit / (payout - 1), quantized: the raw stake of the call.
raw_stake ==
    quantize_bet(calc.args.target_profit * SizePayoutScale,
                 calc.args.payout - SizePayoutScale)

\* C26: the sizing formula returns max(min(raw_stake, max_stake, current_bank),
\* min_stake), so the returned stake is never below min_stake. (Violated:
\* compute_covering_bet_for_target caps the stake and returns it without
\* raising it to min_bet.)
C26_ClampThenRaise ==
    (stake_sized /\ ~degenerate) =>
        calc.out = Max(Min(Min(raw_stake, calc.args.max_bet_limit),
                           calc.args.current_bank),
                       calc.args.min_bet)

C28_DegenerateGivesMin ==
    (stake_sized /\ degenerate) => calc.out = calc.args.min_bet

\* ----------------------------------------------------------- C29..C30
\* A scanner constructed with start 100 and max 105.
scan_100_105 ==
    /\ calc.fn = "next_payout_and_bet"
    /\ calc.args.start_payout = 100 /\ calc.args.max_payout = 105

\* C29: for a scanner with start 100, max 105 and step 1, the first six calls
\* return 100, 101, 102, 103, 104, 105, each with wrapped = false, and the
\* seventh call returns 100 with wrapped = true.
C29_SeventhCallWraps ==
    scan_100_105 =>
        \A i \in 1..Len(calc.out) :
            /\ i <= 6 => calc.out[i] = <<100 + i - 1, FALSE>>
            /\ i = 7 => calc.out[i] = <<100, TRUE>>

\* The [min, max] range a swap and a clamp of the configured bounds give.
normalized_min(a, b) ==
    LET lo == IF a < b THEN a ELSE b
    IN  IF lo < LadderClampMin THEN LadderClampMin ELSE lo

normalized_max(a, b) ==
    LET hi == IF a < b THEN b ELSE a
        top == IF hi > LadderClampMax THEN LadderClampMax ELSE hi
    IN  IF top < normalized_min(a, b) THEN normalized_min(a, b) ELSE top

C31_NeverRoundsUp ==
    calc.calls >= 1 =>
        calc.first[1] * calc.args.bet[2] <= calc.args.bet[1] * calc.first[2]

\* C31 as the code has it: truncation is towards zero, so quantize(x) <= x for
\* x >= 0 and quantize(x) >= x for x < 0; in both cases less than one quantum
\* is dropped.
C31_TruncatesTowardsZero ==
    calc.calls >= 1 =>
        LET lhs == calc.first[1] * calc.args.bet[2]
            rhs == calc.args.bet[1] * calc.first[2]
            quantum == calc.args.bet[2] * calc.first[2]
        IN  /\ calc.args.bet[1] >= 0 => (lhs <= rhs /\ rhs - lhs < quantum)
            /\ calc.args.bet[1] < 0 => (lhs >= rhs /\ lhs - rhs < quantum)

\* A positive amount with a fraction of a quantum has been truncated.
C31_Witness ==
    /\ calc.calls >= 1
    /\ calc.args.bet = <<7, 2>>
    /\ calc.first = <<3, 1>>

\* C33: quantization is idempotent: quantize(quantize(x)) = quantize(x).
C33_Idempotent ==
    calc.calls = 2 => calc.out = calc.first

\* A fractional amount quantized twice: the second call changed nothing of a
\* result that differs from the amount.
C33_Witness ==
    /\ calc.calls = 2
    /\ calc.args.bet = <<-7, 3>>
    /\ calc.first = <<-2, 1>>
    /\ calc.out = <<-2, 1>>

\* ----------------------------------------------------------------- C32
\* The stake the function of the call returns for another target profit, the
\* other arguments being those of the call.
size_for_target(t) ==
    IF calc.fn = "compute_bet_for_target_profit"
    THEN compute_bet_for_target_profit(calc.args.payout, SizePayoutScale, t, 1,
             calc.args.min_bet, calc.args.max_bet_limit, calc.args.current_bank)
    ELSE IF calc.fn = "compute_covering_bet_for_target"
    THEN compute_covering_bet_for_target(calc.args.payout, SizePayoutScale, t, 1,
             calc.args.min_bet, calc.args.max_bet_limit, calc.args.current_bank)
    ELSE compute_covering_bet_for_target_cover(calc.args.payout, SizePayoutScale, t, 1,
             calc.args.min_bet, calc.args.max_bet_limit, calc.args.current_bank)

\* C32: for fixed multiplier, min_stake, max_stake and current_bank the sizing
\* formula is non-decreasing in target_profit: a larger target_profit never
\* yields a smaller stake.
C32_MonotoneInTarget ==
    calc.out # None =>
        \A t \in (0..(MaxSizeTarget + 1)) \cup {SizeBigTarget} :
            /\ t >= calc.args.target_profit => size_for_target(t) >= calc.out
            /\ t <= calc.args.target_profit => size_for_target(t) <= calc.out

\* A stake that is neither raised nor capped, and grows with the target.
C32_Witness ==
    /\ calc.fn = "compute_bet_for_target_profit" /\ calc.out = 2
    /\ calc.args.payout = 200 /\ calc.args.target_profit = 2
    /\ calc.args.min_bet = 1 /\ calc.args.max_bet_limit = 5
    /\ size_for_target(3) = 3
    /\ size_for_target(SizeBigTarget) = 5

\* ----------------------------------------------------------------- C34
\* C34: every wager handed to the Bet Executor has a stake greater than zero
\* and not greater than the bank the engine read for that wager.
C34_StakePositiveWithinBank ==
    \A b \in Bots :
        mgr.bot[b].pc = "inflight" =>
            /\ mgr.bot[b].bet > 0
            /\ mgr.bot[b].bet <= mgr.bot[b].current_balance

\* ----------------------------------------------------------------- C35
\* C35: Double-Press is disabled during Recovery: while recovery_active is
\* true no PRESS wager is placed and no press is armed, also when recovery is
\* started by the manager while a BASE round of the instance is in flight.
C35_NoPressInRecovery ==
    \A b \in Bots :
        mgr.bot[b].recovery_active =>
            /\ ~mgr.bot[b].press_active
            /\ ~(mgr.bot[b].pc = "inflight" /\ mgr.bot[b].mode = "PRESS")

\* ----------------------------------------------------------------- C36
\* C36: a global take-profit event fires at most once at a time: while one
\* pause is in progress, concurrent check_global_take_profit calls never
\* trigger a second one, so no second rebase-and-resume is ever pending.
C36_OneTakeProfitAtATime ==
    mgr.timers <= 1

\* ----------------------------------------------------------------- C37
\* C37: every instance the manager pauses when recovery is force-ended is
\* eventually resumed and goes back to placing BASE rounds, unless it has
\* been stopped: the loop of an instance that awaits its staggered resume is
\* alive (it has not ended on an exception), so that a round can follow.
C37_PausedInstanceComesBack ==
    \A b \in mgr.resume : mgr.bot[b].pc # "failed"

\* ----------------------------------------------------------------- C38
\* C38: after stop() is called on an instance whose loop thread has been
\* started the loop eventually terminates, whether the instance was just
\* starting, paused, sleeping, retrying or waiting on a wager: the stop flag
\* stays set (is_running false) from the call on, so that the next test of
\* "while self.is_running" ends the loop.
C38_StopEndsLoop ==
    \A b \in Bots : hist[b].stop_at # "" => ~bots[b].is_running

C40_AtMostMaxSpinsRounds ==
    cover.episode_rounds <= cover.periodic_recovery_max_spins

\* C40 as the code has it: the spin count is compared after the round, so an
\* episode has one settled round at least; it comprises at most
\* max(1, periodic_recovery_max_spins) settled rounds, and it goes on after a
\* settled round only if that round was lost, the recovery stop-loss is not
\* reached and the spin count is below periodic_recovery_max_spins.
C40_EpisodeBounded ==
    /\ cover.episode_rounds <= Max(1, cover.periodic_recovery_max_spins)
    /\ cover.pc = "gsl_check" /\ cover.periodic_recovery_active
          => ~cover.win /\ cover.loss_total < RecoveryStopLoss
    /\ cover.pc = "check" /\ cover.periodic_recovery_active
          => cover.episode_rounds < Max(1, cover.periodic_recovery_max_spins)

\* An episode of periodic_recovery_max_spins lost rounds, ended by the count
\* and not by a win or the recovery stop-loss.
C40_Witness ==
    /\ cover.pc = "check"
    /\ ~cover.periodic_recovery_active
    /\ cover.periodic_recovery_max_spins = PeriodicRecoveryMaxSpins
    /\ cover.episode_rounds = cover.periodic_recovery_max_spins
    /\ cover.loss_total > 0
    /\ ~cover.base_post_sl_lock

====
